---- MODULE Spec2Model ----
(***************************************************************************)
(* A model of cal2: the holiday cache (bincode files under ~/.config), the *)
(* provider resolution of --country, the cache-first get_holidays, the     *)
(* month calendar and the commands that read, rewrite and display the      *)
(* cache.                                                                  *)
(*                                                                         *)
(* Byte strings (file contents, holiday names) are run-length sequences    *)
(* <<[b |-> byte, n |-> count], ...>> in canonical form (no two adjacent   *)
(* runs of the same byte, no empty run), so that equal byte strings are    *)
(* equal values and a name of ten megabytes is one run.                    *)
(*                                                                         *)
(* A u32 is the integer v for v < 2^31 and v - 2^32 above (TLC's           *)
(* integers are 32 bits wide); the representation is a bijection.          *)
(*                                                                         *)
(* Filesystem calls on an existing ~/.config are taken to succeed: the Io  *)
(* error returns of fs::metadata, fs::read and File::create are not        *)
(* modelled.                                                               *)
(***************************************************************************)
EXTENDS Integers, Sequences, FiniteSets, TLC

(***************************************************************************)
(* Byte strings                                                            *)
(***************************************************************************)
Run(b, n) == [b |-> b, n |-> n]

\* s followed by t, both canonical
Concat(s, t) ==
    IF s = << >> THEN t
    ELSE IF t = << >> THEN s
    ELSE IF s[Len(s)].b = t[1].b
    THEN SubSeq(s, 1, Len(s) - 1) \o <<Run(t[1].b, s[Len(s)].n + t[1].n)>> \o Tail(t)
    ELSE s \o t

\* the canonical form of a plain list of bytes
RECURSIVE FromBytes(_)
FromBytes(bs) ==
    IF bs = << >> THEN << >>
    ELSE IF Len(bs) = 1 THEN <<Run(bs[1], 1)>>
    ELSE LET mid == Len(bs) \div 2
         IN  Concat(FromBytes(SubSeq(bs, 1, mid)), FromBytes(SubSeq(bs, mid + 1, Len(bs))))

\* the bytes of the runs lo..hi of s
RECURSIVE RunsLen(_, _, _)
RunsLen(s, lo, hi) ==
    IF lo > hi THEN 0
    ELSE IF lo = hi THEN s[lo].n
    ELSE LET mid == (lo + hi) \div 2
         IN  RunsLen(s, lo, mid) + RunsLen(s, mid + 1, hi)

ByteLen(s) == RunsLen(s, 1, Len(s))

\* s has k bytes or more
RECURSIVE HasBytes(_, _)
HasBytes(s, k) ==
    \/ k <= 0
    \/ s # << >> /\ (s[1].n >= k \/ HasBytes(Tail(s), k - s[1].n))

\* the first k bytes of s, k <= ByteLen(s)
RECURSIVE TakeBytes(_, _)
TakeBytes(s, k) ==
    IF k = 0 THEN << >>
    ELSE IF s[1].n >= k THEN <<Run(s[1].b, k)>>
    ELSE <<s[1]>> \o TakeBytes(Tail(s), k - s[1].n)

\* s without its first k bytes, k <= ByteLen(s)
RECURSIVE DropBytes(_, _)
DropBytes(s, k) ==
    IF k = 0 THEN s
    ELSE IF s[1].n > k THEN <<Run(s[1].b, s[1].n - k)>> \o Tail(s)
    ELSE DropBytes(Tail(s), k - s[1].n)

\* the plain list of the bytes of a short string
RECURSIVE Unpack(_)
Unpack(s) ==
    IF s = << >> THEN << >>
    ELSE IF s[1].n = 1 THEN <<s[1].b>> \o Unpack(Tail(s))
    ELSE <<s[1].b>> \o Unpack(<<Run(s[1].b, s[1].n - 1)>> \o Tail(s))

\* String::from_utf8 on ASCII data: every byte below 128.  Multi-byte
\* sequences occur in no modelled file and are taken as invalid.
IsUtf8(s) == \A i \in 1..Len(s) : s[i].b < 128

(***************************************************************************)
(* bincode 1.x, fixed-width little-endian integers                         *)
(***************************************************************************)
EncU32(v) ==
    LET w == IF v >= 0 THEN v ELSE (v + 2147483647) + 1
        top == (w \div 16777216) + (IF v >= 0 THEN 0 ELSE 128)
    IN  <<w % 256, (w \div 256) % 256, (w \div 65536) % 256, top>>

EncU64(v) == <<v % 256, (v \div 256) % 256, (v \div 65536) % 256,
               v \div 16777216, 0, 0, 0, 0>>

\* reader results: [ok |-> TRUE, val |-> v, rest |-> bytes left] or Fail
Fail == [ok |-> FALSE]

\* the value of four little-endian bytes
U32Value(b) ==
    b[1] + 256 * b[2] + 65536 * b[3]
    + 16777216 * (IF b[4] < 128 THEN b[4] ELSE b[4] - 256)

ReadU32(rest) ==
    IF ~HasBytes(rest, 4) THEN Fail
    ELSE [ok |-> TRUE, val |-> U32Value(Unpack(TakeBytes(rest, 4))),
          rest |-> DropBytes(rest, 4)]

\* the value of eight little-endian bytes; a u64 of 2^31 or more is longer
\* than any modelled file: -1
U64Value(b) ==
    IF b[4] < 128 /\ b[5] = 0 /\ b[6] = 0 /\ b[7] = 0 /\ b[8] = 0
    THEN b[1] + 256 * b[2] + 65536 * b[3] + 16777216 * b[4]
    ELSE -1

ReadU64(rest) ==
    IF ~HasBytes(rest, 8) THEN Fail
    ELSE [ok |-> TRUE, val |-> U64Value(Unpack(TakeBytes(rest, 8))),
          rest |-> DropBytes(rest, 8)]

\* a String after its length l was read
StringOfLen(l) ==
    IF ~l.ok THEN Fail
    ELSE IF l.val < 0 \/ ~HasBytes(l.rest, l.val) THEN Fail
    ELSE IF ~IsUtf8(TakeBytes(l.rest, l.val)) THEN Fail
    ELSE [ok |-> TRUE, val |-> TakeBytes(l.rest, l.val), rest |-> DropBytes(l.rest, l.val)]

ReadString(rest) == StringOfLen(ReadU64(rest))

ReadBool(rest) ==
    IF ~HasBytes(rest, 1) THEN Fail
    ELSE LET b == rest[1].b
         IN  IF b > 1 THEN Fail
             ELSE [ok |-> TRUE, val |-> (b = 1), rest |-> DropBytes(rest, 1)]

(***************************************************************************)
(* HolidayKind, HolidayEntry, HM                                           *)
(***************************************************************************)
Official == "Official"
Custom == "Custom"

official(name) == [name |-> name, kind |-> Official]
custom(name) == [name |-> name, kind |-> Custom]

\* HM = HashMap<(u32, u32), HolidayEntry>: a function on a set of <<day, month>>
EmptyHM == [k \in {} |-> official(<< >>)]

Insert(m, k, v) == [x \in (DOMAIN m) \cup {k} |-> IF x = k THEN v ELSE m[x]]

Remove(m, k) == [x \in (DOMAIN m) \ {k} |-> m[x]]

\* the variant index serde writes for HolidayKind
KindIndex(kind) == IF kind = Official THEN 0 ELSE 1

\* a HolidayKind after its variant index r was read
KindOfIndex(r) ==
    IF ~r.ok THEN Fail
    ELSE IF r.val = 0 THEN [ok |-> TRUE, val |-> Official, rest |-> r.rest]
    ELSE IF r.val = 1 THEN [ok |-> TRUE, val |-> Custom, rest |-> r.rest]
    ELSE Fail

ReadKind(rest) == KindOfIndex(ReadU32(rest))

\* a key (u32, u32) after its first component d was read
KeyAfterDay(d, m) ==
    IF ~m.ok THEN Fail ELSE [ok |-> TRUE, val |-> <<d.val, m.val>>, rest |-> m.rest]

KeyOfDay(d) == IF ~d.ok THEN Fail ELSE KeyAfterDay(d, ReadU32(d.rest))

ReadKey(rest) == KeyOfDay(ReadU32(rest))

\* a HolidayEntry {name, kind} after its name s was read
EntryAfterName(s, k) ==
    IF ~k.ok THEN Fail
    ELSE [ok |-> TRUE, val |-> [name |-> s.val, kind |-> k.val], rest |-> k.rest]

EntryOfName(s) == IF ~s.ok THEN Fail ELSE EntryAfterName(s, ReadKind(s.rest))

ReadHolidayEntry(rest) == EntryOfName(ReadString(rest))

\* one (key, value) of the map, the value read by the schema's reader
PairAfterKey(k, v) ==
    IF ~v.ok THEN Fail ELSE [ok |-> TRUE, key |-> k.val, val |-> v.val, rest |-> v.rest]

EntryOfKey(k) == IF ~k.ok THEN Fail ELSE PairAfterKey(k, ReadHolidayEntry(k.rest))

ReadEntry(rest) == EntryOfKey(ReadKey(rest))

\* a HashMap is read entry by entry; a later duplicate key replaces an earlier
RECURSIVE ReadEntries(_, _, _)
EntriesAfter(e, n, acc) ==
    IF ~e.ok THEN Fail ELSE ReadEntries(e.rest, n - 1, Insert(acc, e.key, e.val))

ReadEntries(rest, n, acc) ==
    IF n = 0 THEN [ok |-> TRUE, hm |-> acc]
    ELSE EntriesAfter(ReadEntry(rest), n, acc)

\* the map after its length n was read
EntriesOfLen(n) ==
    IF ~n.ok \/ n.val < 0 THEN Fail ELSE ReadEntries(n.rest, n.val, EmptyHM)

\* bincode::deserialize::<HM>(&bytes): bytes after the value are allowed
DeserializeHM(bytes) == EntriesOfLen(ReadU64(bytes))

LegacyEntryOfKey(k) == IF ~k.ok THEN Fail ELSE PairAfterKey(k, ReadBool(k.rest))

ReadLegacyEntry(rest) == LegacyEntryOfKey(ReadKey(rest))

RECURSIVE ReadLegacyEntries(_, _, _)
LegacyEntriesAfter(e, n, acc) ==
    IF ~e.ok THEN Fail ELSE ReadLegacyEntries(e.rest, n - 1, Insert(acc, e.key, e.val))

ReadLegacyEntries(rest, n, acc) ==
    IF n = 0 THEN [ok |-> TRUE, hm |-> acc]
    ELSE LegacyEntriesAfter(ReadLegacyEntry(rest), n, acc)

LegacyEntriesOfLen(n) ==
    IF ~n.ok \/ n.val < 0 THEN Fail
    ELSE ReadLegacyEntries(n.rest, n.val, [k \in {} |-> FALSE])

\* bincode::deserialize::<LegacyHM>(&bytes)
DeserializeLegacy(bytes) == LegacyEntriesOfLen(ReadU64(bytes))

\* the orders in which a HashMap may iterate over its keys
Orders(S) ==
    {o \in [1..Cardinality(S) -> S] : \A i, j \in 1..Cardinality(S) : o[i] = o[j] => i = j}

SerializeEntry(k, e) ==
    Concat(Concat(FromBytes(EncU32(k[1]) \o EncU32(k[2]) \o EncU64(ByteLen(e.name))),
                  e.name),
           FromBytes(EncU32(KindIndex(e.kind))))

RECURSIVE SerializeEntries(_, _, _)
SerializeEntries(hm, order, i) ==
    IF i > Len(order) THEN << >>
    ELSE Concat(SerializeEntry(order[i], hm[order[i]]), SerializeEntries(hm, order, i + 1))

\* bincode::serialize_into(writer, hm), the map iterated in `order`
SerializeHM(hm, order) ==
    Concat(FromBytes(EncU64(Len(order))), SerializeEntries(hm, order, 1))

RECURSIVE SerializeLegacyEntries(_, _, _)
SerializeLegacyEntries(lm, order, i) ==
    IF i > Len(order) THEN << >>
    ELSE Concat(FromBytes(EncU32(order[i][1]) \o EncU32(order[i][2])
                          \o <<IF lm[order[i]] THEN 1 ELSE 0>>),
                SerializeLegacyEntries(lm, order, i + 1))

\* a LegacyHM file as an earlier release wrote it
SerializeLegacy(lm, order) ==
    Concat(FromBytes(EncU64(Len(order))), SerializeLegacyEntries(lm, order, 1))

(***************************************************************************)
(* Text: a &str is a sequence of Unicode code points                       *)
(***************************************************************************)
\* "0".."9" are 48..57, "A".."Z" 65..90, "a".."z" 97..122, "-" 45, "+" 43
IsDigit(c) == c >= 48 /\ c <= 57

\* char::is_ascii_alphabetic
is_ascii_alphabetic(c) == (c >= 65 /\ c <= 90) \/ (c >= 97 /\ c <= 122)

\* char::is_whitespace: the Unicode White_Space code points
is_whitespace(c) ==
    \/ c \in {9, 10, 11, 12, 13, 32, 133, 160, 5760, 8232, 8233, 8239, 8287, 12288}
    \/ (c >= 8192 /\ c <= 8202)

\* the number of bytes of a code point in UTF-8
len_utf8(c) == IF c < 128 THEN 1 ELSE IF c < 2048 THEN 2 ELSE IF c < 65536 THEN 3 ELSE 4

\* str::len: the length in bytes
RECURSIVE StrByteLen(_)
StrByteLen(s) == IF s = << >> THEN 0 ELSE len_utf8(s[1]) + StrByteLen(Tail(s))

\* char::to_uppercase on ASCII and Latin-1, and on the code points of the
\* model's alphabet whose upper case is ASCII or longer than one character:
\* U+00DF -> "SS", U+0131 -> "I", U+017F -> "S", U+FB01 -> "FI"
to_uppercase_char(c) ==
    IF c >= 97 /\ c <= 122 THEN <<c - 32>>
    ELSE IF c = 223 THEN <<83, 83>>
    ELSE IF c = 255 THEN <<376>>
    ELSE IF c >= 224 /\ c <= 254 /\ c # 247 THEN <<c - 32>>
    ELSE IF c = 305 THEN <<73>>
    ELSE IF c = 383 THEN <<83>>
    ELSE IF c = 64257 THEN <<70, 73>>
    ELSE <<c>>

RECURSIVE to_uppercase(_)
to_uppercase(s) ==
    IF s = << >> THEN << >> ELSE to_uppercase_char(s[1]) \o to_uppercase(Tail(s))

\* char::to_lowercase on ASCII and Latin-1
to_lowercase_char(c) ==
    IF c >= 65 /\ c <= 90 THEN c + 32
    ELSE IF c >= 192 /\ c <= 222 /\ c # 215 THEN c + 32
    ELSE c

to_lowercase(s) == [i \in 1..Len(s) |-> to_lowercase_char(s[i])]

RECURSIVE trim_start(_)
trim_start(s) ==
    IF s # << >> /\ is_whitespace(s[1]) THEN trim_start(Tail(s)) ELSE s

RECURSIVE trim_end(_)
trim_end(s) ==
    IF s # << >> /\ is_whitespace(s[Len(s)])
    THEN trim_end(SubSeq(s, 1, Len(s) - 1)) ELSE s

\* str::trim
trim(s) == trim_end(trim_start(s))

\* the decimal digits of a natural number
RECURSIVE Digits(_)
Digits(n) == IF n < 10 THEN <<48 + n>> ELSE Digits(n \div 10) \o <<48 + (n % 10)>>

\* format!("{v}") of a u32 held as described at the top of the module
FormatU32(v) ==
    IF v >= 0 THEN Digits(v)
    ELSE LET w == (v + 2147483647) + 1
             u == (w % 10) + 8
         IN  Digits((w \div 10) + 214748364 + (u \div 10)) \o <<48 + (u % 10)>>

\* format!("{v:02}") of a u32
FormatU32Pad2(v) == IF v >= 0 /\ v < 10 THEN <<48>> \o Digits(v) ELSE FormatU32(v)

\* format!("{year}") of an i32
FormatI32(y) == IF y >= 0 THEN Digits(y) ELSE <<45>> \o Digits(0 - y)

\* a String of ASCII text as the bytes bincode writes
Utf8(s) == FromBytes(s)

(***************************************************************************)
(* Result and Option                                                       *)
(***************************************************************************)
Ok(v) == [ok |-> TRUE, val |-> v]
Err(kind, msg) == [ok |-> FALSE, err |-> kind, msg |-> msg]
None == [some |-> FALSE]
Some(v) == [some |-> TRUE, val |-> v]

(***************************************************************************)
(* Provider                                                                *)
(***************************************************************************)
ArgentinaDatos == [tag |-> "ArgentinaDatos"]
OpenHolidays(code) == [tag |-> "OpenHolidays", country_code |-> code]

\* "AR"
AR == <<65, 82>>

from_country_keeps_ar(country) ==
    IF ~country.some THEN Ok(ArgentinaDatos)
    ELSE LET trimmed == trim(country.val)
             upper == to_uppercase(trimmed)
         IN  IF trimmed = << >>
             THEN Err("Config", "--country cannot be empty")
             ELSE IF ~(StrByteLen(upper) \in 2..3)
             THEN Err("Config", "--country must be a 2- or 3-letter ISO code")
             ELSE IF ~(\A i \in 1..Len(upper) : is_ascii_alphabetic(upper[i]))
             THEN Err("Config", "--country must contain only ASCII letters")
             ELSE Ok(OpenHolidays(upper))

from_country(country) ==
    IF ~country.some THEN Ok(ArgentinaDatos)
    ELSE LET trimmed == trim(country.val)
             upper == to_uppercase(trimmed)
         IN  IF trimmed = << >>
             THEN Err("Config", "--country cannot be empty")
             ELSE IF ~(StrByteLen(upper) \in 2..3)
             THEN Err("Config", "--country must be a 2- or 3-letter ISO code")
             ELSE IF ~(\A i \in 1..Len(upper) : is_ascii_alphabetic(upper[i]))
             THEN Err("Config", "--country must contain only ASCII letters")
             ELSE IF upper = AR THEN Ok(ArgentinaDatos)
             ELSE Ok(OpenHolidays(upper))

is_default(provider) == provider.tag = "ArgentinaDatos"

\* "argentina-datos" and "openholidays-"
slug(provider) ==
    IF provider.tag = "ArgentinaDatos"
    THEN <<97, 114, 103, 101, 110, 116, 105, 110, 97, 45, 100, 97, 116, 111, 115>>
    ELSE <<111, 112, 101, 110, 104, 111, 108, 105, 100, 97, 121, 115, 45>>
         \o to_lowercase(provider.country_code)

\* the value of $HOME that shellexpand::tilde puts for "~": "/h"
Home == <<47, 104>>

get_filename_always_slug(year, provider) ==
    Home \o <<47, 46, 99, 111, 110, 102, 105, 103, 47>>
    \o <<104, 109, 45>> \o slug(provider) \o <<45>> \o FormatI32(year)

\* "~/.config/" expanded, then "hm-<year>" or "hm-<slug>-<year>"
get_filename(year, provider) ==
    LET basename == IF is_default(provider)
                    THEN <<104, 109, 45>> \o FormatI32(year)
                    ELSE <<104, 109, 45>> \o slug(provider) \o <<45>> \o FormatI32(year)
    IN  Home \o <<47, 46, 99, 111, 110, 102, 105, 103, 47>> \o basename

(***************************************************************************)
(* The store: load and save                                                *)
(*                                                                         *)
(* A filesystem is a function from paths to None (no such file) or         *)
(* Some(bytes).  An operation yields the set of its possible outcomes      *)
(* [res, fs, io]: its result, the filesystem it leaves and the I/O calls   *)
(* it made, in order.  The outcomes differ in the order in which the       *)
(* HashMap was iterated when it was written.                               *)
(***************************************************************************)
MAX_CACHE_BYTES == 10 * 1024 * 1024

Metadata(fname) == [call |-> "fs::metadata", path |-> fname]
Read(fname) == [call |-> "fs::read", path |-> fname]
Create(fname) == [call |-> "File::create", path |-> fname]
Get(url) == [call |-> "reqwest::blocking::get", url |-> url]

IsWrite(e) == e.call = "File::create"
IsFetch(e) == e.call = "reqwest::blocking::get"

Unit == "()"

save(fsv, fname, hm) ==
    { [res |-> Ok(Unit),
       fs |-> [fsv EXCEPT ![fname] = Some(SerializeHM(hm, order))],
       io |-> <<Create(fname)>>] : order \in Orders(DOMAIN hm) }

\* "Legacy holiday (" day:02 "/" month:02 ")"
LegacyName(day, month) ==
    Utf8(<<76, 101, 103, 97, 99, 121, 32, 104, 111, 108, 105, 100, 97, 121, 32, 40>>
         \o FormatU32Pad2(day) \o <<47>> \o FormatU32Pad2(month) \o <<41>>)

Migrate_all(legacy) ==
    [k \in DOMAIN legacy |-> custom(LegacyName(k[1], k[2]))]

\* the loop of load over the legacy map
Migrate(legacy) ==
    [k \in {x \in DOMAIN legacy : legacy[x]} |-> custom(LegacyName(k[1], k[2]))]

\* load after the size check: the file decoded under both schemas
Decoded_corrupt_is_miss(fsv, fname, resp, legacy) ==
    IF resp.ok
    THEN {[res |-> Ok(Some(resp.hm)), fs |-> fsv, io |-> <<Metadata(fname), Read(fname)>>]}
    ELSE IF legacy.ok
    THEN { [res |-> IF s.res.ok THEN Ok(Some(Migrate(legacy.hm))) ELSE s.res,
            fs |-> s.fs,
            io |-> <<Metadata(fname), Read(fname)>> \o s.io]
           : s \in save(fsv, fname, Migrate(legacy.hm)) }
    ELSE {[res |-> Ok(None), fs |-> fsv, io |-> <<Metadata(fname), Read(fname)>>]}

Decoded(fsv, fname, resp, legacy) ==
    IF resp.ok
    THEN {[res |-> Ok(Some(resp.hm)), fs |-> fsv, io |-> <<Metadata(fname), Read(fname)>>]}
    ELSE IF legacy.ok
    THEN { [res |-> IF s.res.ok THEN Ok(Some(Migrate(legacy.hm))) ELSE s.res,
            fs |-> s.fs,
            io |-> <<Metadata(fname), Read(fname)>> \o s.io]
           : s \in save(fsv, fname, Migrate(legacy.hm)) }
    ELSE {[res |-> Err("Cache", "failed to deserialize cache"), fs |-> fsv,
           io |-> <<Metadata(fname), Read(fname)>>]}

load_ge(fsv, fname) ==
    IF ~fsv[fname].some
    THEN {[res |-> Ok(None), fs |-> fsv, io |-> <<Metadata(fname)>>]}
    ELSE IF ByteLen(fsv[fname].val) >= MAX_CACHE_BYTES
    THEN {[res |-> Err("Cache", "exceeds MAX_CACHE_BYTES"), fs |-> fsv,
           io |-> <<Metadata(fname)>>]}
    ELSE Decoded(fsv, fname, DeserializeHM(fsv[fname].val),
                 DeserializeLegacy(fsv[fname].val))

load(fsv, fname) ==
    IF ~fsv[fname].some
    THEN {[res |-> Ok(None), fs |-> fsv, io |-> <<Metadata(fname)>>]}
    ELSE IF ByteLen(fsv[fname].val) > MAX_CACHE_BYTES
    THEN {[res |-> Err("Cache", "exceeds MAX_CACHE_BYTES"), fs |-> fsv,
           io |-> <<Metadata(fname)>>]}
    ELSE Decoded(fsv, fname, DeserializeHM(fsv[fname].val),
                 DeserializeLegacy(fsv[fname].val))

(***************************************************************************)
(* The fetcher                                                             *)
(*                                                                         *)
(* net is what the network answers to the one GET: [kind |-> "error"] (the *)
(* transport fails), [kind |-> "text", ...] (a body that is no JSON of     *)
(* either shape), [kind |-> "argentina", entries |-> <<[fecha, nombre]>>]  *)
(* or [kind |-> "openholidays", entries |-> <<[start_date, name]>>], name  *)
(* a list of [language, text].                                             *)
(***************************************************************************)
\* str::splitn(3, '-'): at most three parts, the last one the remainder
RECURSIVE SplitN(_, _, _)
SplitN(s, n, sep) ==
    LET hits == {i \in 1..Len(s) : s[i] = sep}
        IN  IF n <= 1 \/ hits = {} THEN <<s>>
            ELSE LET i == CHOOSE j \in hits : \A h \in hits : j <= h
                 IN  <<SubSeq(s, 1, i - 1)>> \o SplitN(SubSeq(s, i + 1, Len(s)), n - 1, sep)

\* one more decimal digit d on a u32 acc; Fail on overflow
PushDigit(acc, d) ==
    IF acc < 0 THEN Fail
    ELSE IF acc <= 214748363 \/ (acc = 214748364 /\ d <= 7)
    THEN [ok |-> TRUE, val |-> acc * 10 + d]
    ELSE IF acc > 429496729 \/ (acc = 429496729 /\ d > 5) THEN Fail
    ELSE [ok |-> TRUE, val |-> (acc - 429496728) * 10 + (d - 16)]

RECURSIVE ParseDigits(_, _)
ParseDigits(s, acc) ==
    IF s = << >> THEN [ok |-> TRUE, val |-> acc]
    ELSE IF ~IsDigit(s[1]) THEN Fail
    ELSE LET r == PushDigit(acc, s[1] - 48)
         IN  IF ~r.ok THEN Fail ELSE ParseDigits(Tail(s), r.val)

\* str::parse::<u32>: an optional "+", then one digit or more
ParseU32(s) ==
    LET digits == IF s # << >> /\ s[1] = 43 THEN Tail(s) ELSE s
    IN  IF digits = << >> THEN Fail ELSE ParseDigits(digits, 0)

\* parse_date with the month held to 1..12 and the day to 1..31
parse_date_in_range(date) ==
    LET parts == SplitN(date, 3, 45)
    IN  IF Len(parts) < 3 \/ ~ParseU32(parts[2]).ok \/ ~ParseU32(parts[3]).ok THEN None
        ELSE IF ParseU32(parts[2]).val \notin 1..12 \/ ParseU32(parts[3]).val \notin 1..31
        THEN None
        ELSE Some(<<ParseU32(parts[3]).val, ParseU32(parts[2]).val>>)

parse_date(date) ==
    LET parts == SplitN(date, 3, 45)
    IN  IF Len(parts) < 2 THEN None
        ELSE LET month == ParseU32(parts[2])
             IN  IF ~month.ok THEN None
                 ELSE IF Len(parts) < 3 THEN None
                 ELSE LET day == ParseU32(parts[3])
                      IN  IF ~day.ok THEN None
                          ELSE Some(<<day.val, month.val>>)

\* entries: a sequence of <<date, name>>
RECURSIVE BuildFrom(_, _, _)
BuildFrom(entries, i, hm) ==
    IF i > Len(entries) THEN hm
    ELSE LET key == parse_date(entries[i][1])
         IN  BuildFrom(entries, i + 1,
                       IF key.some THEN Insert(hm, key.val, official(entries[i][2]))
                       ELSE hm)

build_holidays(entries) == BuildFrom(entries, 1, EmptyHM)

fetch_argentina(year, net) ==
    LET io == <<Get([api |-> "api.argentinadatos.com/v1/feriados", year |-> year])>>
    IN  IF net.kind = "error" THEN [res |-> Err("Http", "transport"), io |-> io]
        ELSE IF net.kind # "argentina" THEN [res |-> Err("Json", "body"), io |-> io]
        ELSE [res |-> Ok(build_holidays([i \in 1..Len(net.entries) |->
                            <<net.entries[i].fecha, net.entries[i].nombre>>])),
              io |-> io]

\* str::eq_ignore_ascii_case(language, "EN")
IsEN(language) == to_lowercase(language) = <<101, 110>>

\* the English name, else the first name, else "Public holiday"
Chosen(name) ==
    LET en == {i \in 1..Len(name) : IsEN(name[i].language)}
    IN  IF en # {} THEN name[CHOOSE i \in en : \A j \in en : i <= j].text
        ELSE IF Len(name) > 0 THEN name[1].text
        ELSE Utf8(<<80, 117, 98, 108, 105, 99, 32, 104, 111, 108, 105, 100, 97, 121>>)

fetch_openholidays(year, country_code, net) ==
    LET io == <<Get([api |-> "openholidaysapi.org/PublicHolidays", year |-> year,
                     countryIsoCode |-> country_code])>>
    IN  IF net.kind = "error" THEN [res |-> Err("Http", "transport"), io |-> io]
        ELSE IF net.kind # "openholidays" THEN [res |-> Err("Json", "body"), io |-> io]
        ELSE [res |-> Ok(build_holidays([i \in 1..Len(net.entries) |->
                            <<net.entries[i].start_date, Chosen(net.entries[i].name)>>])),
              io |-> io]

\* Provider::fetch
fetch(provider, year, net) ==
    IF provider.tag = "ArgentinaDatos" THEN fetch_argentina(year, net)
    ELSE fetch_openholidays(year, provider.country_code, net)

(***************************************************************************)
(* The orchestrator                                                        *)
(***************************************************************************)
\* after a miss: provider.fetch(year)?, save(&fname, &hm)?, Ok(hm)
FetchAndSave_fallback(l, fname, year, provider, net) ==
    LET f == fetch(provider, year, net)
        hm == IF f.res.ok THEN f.res.val ELSE EmptyHM
    IN  { [res |-> IF s.res.ok THEN Ok(hm) ELSE s.res,
           fs |-> s.fs, io |-> l.io \o f.io \o s.io]
          : s \in save(l.fs, fname, hm) }

FetchAndSave(l, fname, year, provider, net) ==
    LET f == fetch(provider, year, net)
    IN  IF ~f.res.ok
        THEN {[res |-> f.res, fs |-> l.fs, io |-> l.io \o f.io]}
        ELSE { [res |-> IF s.res.ok THEN Ok(f.res.val) ELSE s.res,
                fs |-> s.fs, io |-> l.io \o f.io \o s.io]
               : s \in save(l.fs, fname, f.res.val) }

get_holidays_refetch(fsv, year, provider, net) ==
    LET fname == get_filename(year, provider)
    IN  UNION { IF ~l.res.ok THEN {[res |-> l.res, fs |-> l.fs, io |-> l.io]}
                ELSE FetchAndSave(l, fname, year, provider, net)
                : l \in load(fsv, fname) }

get_holidays_lenient(fsv, year, provider, net) ==
    LET fname == get_filename(year, provider)
    IN  UNION { IF l.res.ok /\ l.res.val.some
                THEN {[res |-> Ok(l.res.val.val), fs |-> l.fs, io |-> l.io]}
                ELSE FetchAndSave(l, fname, year, provider, net)
                : l \in load(fsv, fname) }

get_holidays(fsv, year, provider, net) ==
    LET fname == get_filename(year, provider)
    IN  UNION { IF ~l.res.ok THEN {[res |-> l.res, fs |-> l.fs, io |-> l.io]}
                ELSE IF l.res.val.some
                THEN {[res |-> Ok(l.res.val.val), fs |-> l.fs, io |-> l.io]}
                ELSE FetchAndSave(l, fname, year, provider, net)
                : l \in load(fsv, fname) }

(***************************************************************************)
(* The commands                                                            *)
(*                                                                         *)
(* now is the clock: [year, month, day] is what Utc::now() answers to       *)
(* env.now(), and the first tick calls of get_matrix after it still read   *)
(* that day, the later ones the day after.  What a command prints is the   *)
(* I/O event Stdout(text); the Io errors of stdout are not modelled.  The  *)
(* text of a calendar is its table of cells, the text of a listing the     *)
(* list of its lines.                                                      *)
(***************************************************************************)
Stdout(text) == [call |-> "stdout", text |-> text]

\* "OK"
OK == <<79, 75>>

\* "No holidays found"
NoHolidaysFound ==
    <<78, 111, 32, 104, 111, 108, 105, 100, 97, 121, 115, 32, 102, 111, 117, 110, 100>>

\* RealEnvironment::holidays
env_holidays(fsv, provider, year, net) == get_holidays(fsv, year, provider, net)

\* RealEnvironment::load: a miss is the empty map
env_load(fsv, provider, year) ==
    { [res |-> IF ~l.res.ok THEN l.res
               ELSE Ok(IF l.res.val.some THEN l.res.val.val ELSE EmptyHM),
       fs |-> l.fs, io |-> l.io]
      : l \in load(fsv, get_filename(year, provider)) }

\* RealEnvironment::save
env_save(fsv, provider, year, hm) == save(fsv, get_filename(year, provider), hm)

\* "Custom holiday (" day:02 "/" month:02 ")"
CustomName(day, month) ==
    Utf8(<<67, 117, 115, 116, 111, 109, 32, 104, 111, 108, 105, 100, 97, 121, 32, 40>>
         \o FormatU32Pad2(day) \o <<47>> \o FormatU32Pad2(month) \o <<41>>)

\* after a load l: env.save(now.year(), &hm)?, env.println("OK")
SaveAndOk(l, provider, year, hm) ==
    { [res |-> IF s.res.ok THEN Ok(Unit) ELSE s.res,
       fs |-> s.fs,
       io |-> l.io \o s.io \o (IF s.res.ok THEN <<Stdout(OK)>> ELSE << >>)]
      : s \in env_save(l.fs, provider, year, hm) }

\* add over env.holidays in place of env.load, the provider answering
add_fetches(fsv, provider, now, day, month) ==
    UNION { IF ~h.res.ok THEN {[res |-> h.res, fs |-> h.fs, io |-> h.io]}
            ELSE SaveAndOk(h, provider, now.year,
                           IF <<day, month>> \in DOMAIN h.res.val THEN h.res.val
                           ELSE Insert(h.res.val, <<day, month>>,
                                       custom(CustomName(day, month))))
            : h \in env_holidays(fsv, provider, now.year,
                                 [kind |-> "argentina", entries |-> << >>]) }

add_overwrites(fsv, provider, now, day, month) ==
    UNION { IF ~l.res.ok THEN {[res |-> l.res, fs |-> l.fs, io |-> l.io]}
            ELSE SaveAndOk(l, provider, now.year,
                           Insert(l.res.val, <<day, month>>,
                                  custom(CustomName(day, month))))
            : l \in env_load(fsv, provider, now.year) }

add(fsv, provider, now, day, month) ==
    UNION { IF ~l.res.ok THEN {[res |-> l.res, fs |-> l.fs, io |-> l.io]}
            ELSE SaveAndOk(l, provider, now.year,
                           IF <<day, month>> \in DOMAIN l.res.val THEN l.res.val
                           ELSE Insert(l.res.val, <<day, month>>,
                                       custom(CustomName(day, month))))
            : l \in env_load(fsv, provider, now.year) }

delete_day(fsv, provider, now, day, month) ==
    UNION { IF ~l.res.ok THEN {[res |-> l.res, fs |-> l.fs, io |-> l.io]}
            ELSE SaveAndOk(l, provider, now.year,
                           [k \in {x \in DOMAIN l.res.val : x[1] # day} |-> l.res.val[k]])
            : l \in env_load(fsv, provider, now.year) }

delete(fsv, provider, now, day, month) ==
    UNION { IF ~l.res.ok THEN {[res |-> l.res, fs |-> l.fs, io |-> l.io]}
            ELSE SaveAndOk(l, provider, now.year, Remove(l.res.val, <<day, month>>))
            : l \in env_load(fsv, provider, now.year) }

(***************************************************************************)
(* chrono::NaiveDate: the proleptic Gregorian calendar from MIN_YEAR-01-01 *)
(* to MAX_YEAR-12-31 (chrono 0.4).  A date is [year, month, day]; its day  *)
(* number counts the days since 1970-01-01, a Thursday.                    *)
(***************************************************************************)
MIN_YEAR == -262143
MAX_YEAR == 262142

Date(y, m, d) == [year |-> y, month |-> m, day |-> d]

\* the day number of a date; y is the year that starts on 1 March
DaysFromCivil(date) ==
    LET y == IF date.month <= 2 THEN date.year - 1 ELSE date.year
        mp == IF date.month > 2 THEN date.month - 3 ELSE date.month + 9
    IN  (y \div 400) * 146097 + (y % 400) * 365 + (y % 400) \div 4 - (y % 400) \div 100
        + (153 * mp + 2) \div 5 + date.day - 1 - 719468

\* the date of a day number
CivilFromDays(days) ==
    LET era == (days + 719468) \div 146097
        doe == (days + 719468) - era * 146097
        yoe == (doe - doe \div 1460 + doe \div 36524 - doe \div 146096) \div 365
        doy == doe - (365 * yoe + yoe \div 4 - yoe \div 100)
        mp == (5 * doy + 2) \div 153
    IN  Date(IF mp < 10 THEN era * 400 + yoe ELSE era * 400 + yoe + 1,
             IF mp < 10 THEN mp + 3 ELSE mp - 9,
             doy - (153 * mp + 2) \div 5 + 1)

\* NaiveDate::from_ymd_opt: None unless the date exists and is in range
from_ymd_opt(year, month, day) ==
    IF /\ year >= MIN_YEAR /\ year <= MAX_YEAR
       /\ month >= 1 /\ month <= 12
       /\ day >= 1 /\ day <= 31
       /\ CivilFromDays(DaysFromCivil(Date(year, month, day))) = Date(year, month, day)
    THEN Some(Date(year, month, day))
    ELSE None

\* NaiveDate::pred_opt
pred_opt(date) ==
    IF date = Date(MIN_YEAR, 1, 1) THEN None
    ELSE IF date.day > 1 THEN Some(Date(date.year, date.month, date.day - 1))
    ELSE Some(CivilFromDays(DaysFromCivil(date) - 1))

\* NaiveDate::checked_add_days(Days::new(1)) applied k times, the date
\* staying where a step fails
AddDays(date, k) ==
    IF date.day + k <= 28 THEN Date(date.year, date.month, date.day + k)
    ELSE IF DaysFromCivil(date) + k > DaysFromCivil(Date(MAX_YEAR, 12, 31))
    THEN Date(MAX_YEAR, 12, 31)
    ELSE CivilFromDays(DaysFromCivil(date) + k)

\* Weekday::number_from_monday of NaiveDate::weekday
number_from_monday(date) == ((DaysFromCivil(date) + 3) % 7) + 1

(***************************************************************************)
(* DisplayMonth                                                            *)
(***************************************************************************)
\* Month::name
MonthNames ==
    << <<74, 97, 110, 117, 97, 114, 121>>, <<70, 101, 98, 114, 117, 97, 114, 121>>,
       <<77, 97, 114, 99, 104>>, <<65, 112, 114, 105, 108>>, <<77, 97, 121>>,
       <<74, 117, 110, 101>>, <<74, 117, 108, 121>>, <<65, 117, 103, 117, 115, 116>>,
       <<83, 101, 112, 116, 101, 109, 98, 101, 114>>,
       <<79, 99, 116, 111, 98, 101, 114>>, <<78, 111, 118, 101, 109, 98, 101, 114>>,
       <<68, 101, 99, 101, 109, 98, 101, 114>> >>

\* CalError::InvalidDate("invalid month {month}")
InvalidMonth(month) ==
    Err("InvalidDate",
        <<105, 110, 118, 97, 108, 105, 100, 32, 109, 111, 110, 116, 104, 32>>
        \o FormatU32(month))

\* the day before day 1 of the following month, without the roll into
\* January of year + 1
LastDay_no_roll(year, month) ==
    LET following == from_ymd_opt(year, month + 1, 1)
    IN  IF following.some THEN pred_opt(following.val) ELSE None

\* from_ymd_opt(year, month + 1, 1).or_else(|| from_ymd_opt(year + 1, 1, 1))
\*     .and_then(|d| d.pred_opt())
LastDay(year, month) ==
    LET following == from_ymd_opt(year, month + 1, 1)
        rolled == IF following.some THEN following ELSE from_ymd_opt(year + 1, 1, 1)
    IN  IF rolled.some THEN pred_opt(rolled.val) ELSE None

\* DisplayMonth::new; after first_day, month + 1 overflows for u32::MAX and
\* year + 1 for i32::MAX, a panic in a build with overflow checks
DisplayMonth_new(month, year, hm) ==
    IF ~from_ymd_opt(year, month, 1).some THEN InvalidMonth(month)
    ELSE IF month = -1 \/ (month = 12 /\ year = 2147483647)
    THEN [ok |-> FALSE, err |-> "panic", msg |-> << >>]
    ELSE IF ~LastDay(year, month).some \/ (month % 256) < 1 \/ (month % 256) > 12
    THEN InvalidMonth(month)
    ELSE Ok([month |-> month, year |-> year,
             month_name |-> MonthNames[month % 256] \o <<32>> \o FormatI32(year),
             first_day |-> from_ymd_opt(year, month, 1).val,
             last_day |-> LastDay(year, month).val, hm |-> hm])

next_keeps_year(dm) == DisplayMonth_new((dm.month % 12) + 1, dm.year, dm.hm)

\* DisplayMonth::next
next(dm) ==
    LET next_month == (dm.month % 12) + 1
    IN  DisplayMonth_new(next_month,
                         IF next_month > dm.month THEN dm.year ELSE dm.year + 1, dm.hm)

prev_keeps_year(dm) ==
    DisplayMonth_new(IF dm.month = 1 THEN 12 ELSE dm.month - 1, dm.year, dm.hm)

\* DisplayMonth::prev
prev(dm) ==
    LET prev_month == IF dm.month = 1 THEN 12 ELSE dm.month - 1
    IN  DisplayMonth_new(prev_month,
                         IF prev_month < dm.month THEN dm.year ELSE dm.year - 1, dm.hm)

\* a cell of the grid: the text and the style put on it
Cell(text, style) == [text |-> text, style |-> style]

StyleOf_holiday_first(cr, is_holiday, today) ==
    IF cr = today THEN "black on_white"
    ELSE IF is_holiday THEN "red"
    ELSE IF number_from_monday(cr) \in {6, 7} THEN "green"
    ELSE "plain"

\* the match of get_matrix on Some((cr, is_holiday)); 6 and 7 are Weekday::Sat
\* and Weekday::Sun
StyleOf(cr, is_holiday, today) ==
    IF cr = today THEN "black on_white"
    ELSE IF number_from_monday(cr) \in {6, 7} THEN "green"
    ELSE IF is_holiday THEN "red"
    ELSE "plain"

\* the cells before the chunking: cell i shows curr_day, first_day moved on
\* by one day per day cell before it
Cells(dm, first_index, today) ==
    [i \in 1..(dm.last_day.day + first_index - 1) |->
        IF i < first_index THEN Cell(<< >>, "plain")
        ELSE Cell(Digits(AddDays(dm.first_day, i - first_index).day),
                  StyleOf(AddDays(dm.first_day, i - first_index),
                          <<AddDays(dm.first_day, i - first_index).day, dm.month>>
                              \in DOMAIN dm.hm,
                          today))]

\* slice::chunks
chunks(s, n) ==
    [r \in 1..((Len(s) + n - 1) \div n) |->
        SubSeq(s, (r - 1) * n + 1, IF r * n < Len(s) THEN r * n ELSE Len(s))]

get_matrix_sunday_first(dm, today) ==
    chunks(Cells(dm, (number_from_monday(dm.first_day) % 7) + 1, today), 7)

\* DisplayMonth::get_matrix; today is what Utc::now() answers to this call
get_matrix(dm, today) == chunks(Cells(dm, number_from_monday(dm.first_day), today), 7)

\* "Mo", "Tu", "We", "Th", "Fr", "Sa", "Su"
WEEKDAYS ==
    <<<<77, 111>>, <<84, 117>>, <<87, 101>>, <<84, 104>>, <<70, 114>>, <<83, 97>>,
      <<83, 117>>>>

\* DisplayMonth::format: the table of the labels and the rows of the grid
format(dm, today) ==
    <<[i \in 1..7 |-> Cell(WEEKDAYS[i], "plain")]>> \o get_matrix(dm, today)

Calendars_current_first(mode, now, hm) ==
    IF mode = "Month" THEN <<DisplayMonth_new(now.month, now.year, hm)>>
    ELSE IF mode = "Year" THEN [m \in 1..12 |-> DisplayMonth_new(m, now.year, hm)]
    ELSE <<DisplayMonth_new(now.month, now.year, hm),
           prev(DisplayMonth_new(now.month, now.year, hm).val),
           next(DisplayMonth_new(now.month, now.year, hm).val)>>

\* the months of display, each the result of its DisplayMonth::new
Calendars(mode, now, hm) ==
    IF mode = "Month" THEN <<DisplayMonth_new(now.month, now.year, hm)>>
    ELSE IF mode = "Year" THEN [m \in 1..12 |-> DisplayMonth_new(m, now.year, hm)]
    ELSE LET current == DisplayMonth_new(now.month, now.year, hm)
         IN  IF ~current.ok THEN <<current>>
             ELSE <<prev(current.val), current, next(current.val)>>

\* the date the clock shows to the i-th call of get_matrix
TodayAt(now, i) ==
    IF i <= now.tick THEN Date(now.year, now.month, now.day)
    ELSE AddDays(Date(now.year, now.month, now.day), 1)

\* the table of display: per chunk of three months, the row of their names
\* and the row of their grids
TableOf(cals, now) ==
    [r \in 1..(2 * ((Len(cals) + 2) \div 3)) |->
        [c \in 1..(IF ((r + 1) \div 2) * 3 <= Len(cals) THEN 3
                   ELSE Len(cals) - (((r + 1) \div 2) - 1) * 3) |->
            IF r % 2 = 1 THEN cals[((r - 1) \div 2) * 3 + c].val.month_name
            ELSE format(cals[((r - 1) \div 2) * 3 + c].val,
                        TodayAt(now, ((r - 1) \div 2) * 3 + c))]]

DisplayOf(h, cals, now) ==
    IF \E i \in 1..Len(cals) : ~cals[i].ok
    THEN [res |-> cals[CHOOSE i \in 1..Len(cals) :
                           ~cals[i].ok /\ \A j \in 1..(i - 1) : cals[j].ok],
          fs |-> h.fs, io |-> h.io]
    ELSE [res |-> Ok(Unit), fs |-> h.fs, io |-> h.io \o <<Stdout(TableOf(cals, now))>>]

display(fsv, provider, now, mode, net) ==
    { IF ~h.res.ok THEN [res |-> h.res, fs |-> h.fs, io |-> h.io]
      ELSE DisplayOf(h, Calendars(mode, now, h.res.val), now)
      : h \in env_holidays(fsv, provider, now.year, net) }

RECURSIVE SortedKeys_by_day(_)
SortedKeys_by_day(S) ==
    IF S = {} THEN << >>
    ELSE LET k == CHOOSE x \in S : \A y \in S :
                      x[1] < y[1] \/ (x[1] = y[1] /\ x[2] <= y[2])
         IN  <<k>> \o SortedKeys_by_day(S \ {k})

\* the keys of hm in the order of (month, day)
RECURSIVE SortedKeys(_)
SortedKeys(S) ==
    IF S = {} THEN << >>
    ELSE LET k == CHOOSE x \in S : \A y \in S :
                      x[2] < y[2] \/ (x[2] = y[2] /\ x[1] <= y[1])
         IN  <<k>> \o SortedKeys(S \ {k})

\* format!("{year}-{month:02}-{day:02}")
DateText(year, month, day) ==
    FormatI32(year) \o <<45>> \o FormatU32Pad2(month) \o <<45>> \o FormatU32Pad2(day)

\* the line "{date}  {name} [{kind}]" of a holiday, as its three fields
Line(year, key, entry) ==
    [date |-> DateText(year, key[2], key[1]), name |-> entry.name,
     kind |-> IF entry.kind = Official THEN "official" ELSE "custom"]

\* list in the Table format: one println of the lines, joined by "\n", of
\* the holidays sorted by (month, day), or of "No holidays found"
list(fsv, provider, now, net) ==
    { IF ~h.res.ok THEN [res |-> h.res, fs |-> h.fs, io |-> h.io]
      ELSE IF DOMAIN h.res.val = {}
      THEN [res |-> Ok(Unit), fs |-> h.fs, io |-> h.io \o <<Stdout(NoHolidaysFound)>>]
      ELSE [res |-> Ok(Unit), fs |-> h.fs,
            io |-> h.io \o <<Stdout(
                [i \in 1..Cardinality(DOMAIN h.res.val) |->
                    Line(now.year, SortedKeys(DOMAIN h.res.val)[i],
                         h.res.val[SortedKeys(DOMAIN h.res.val)[i]])])>>]
      : h \in env_holidays(fsv, provider, now.year, net) }

\* Commands
Add(day, month) == [cmd |-> "Add", day |-> day, month |-> month]
Delete(day, month) == [cmd |-> "Delete", day |-> day, month |-> month]
List == [cmd |-> "List"]
Display(mode) == [cmd |-> "Display", mode |-> mode]

\* Args::dispatch
dispatch(fsv, provider, action, now, net) ==
    IF ~action.some THEN display(fsv, provider, now, "Q", net)
    ELSE IF action.val.cmd = "Delete"
    THEN delete(fsv, provider, now, action.val.day, action.val.month)
    ELSE IF action.val.cmd = "Add"
    THEN add(fsv, provider, now, action.val.day, action.val.month)
    ELSE IF action.val.cmd = "Display"
    THEN display(fsv, provider, now,
                 IF action.val.mode.some THEN action.val.mode.val ELSE "Q", net)
    ELSE list(fsv, provider, now, net)

invoke_default_on_error(fsv, args, now, net) ==
    LET provider == from_country(args.country)
    IN  dispatch(fsv, IF provider.ok THEN provider.val ELSE ArgentinaDatos,
                 args.action, now, net)

\* Args::invoke
invoke(fsv, args, now, net) ==
    LET provider == from_country(args.country)
    IN  IF ~provider.ok THEN {[res |-> provider, fs |-> fsv, io |-> << >>]}
        ELSE dispatch(fsv, provider.val, args.action, now, net)

(***************************************************************************)
(* The state                                                               *)
(*                                                                         *)
(* fs       the cache files under ~/.config                                *)
(* last     the last call: its arguments, the file it found at its path    *)
(*          (file0), its result and the I/O calls it made                  *)
(* written  history: per path, the map last handed to save for that path   *)
(*          and the caller that handed it ("save": a caller of save;       *)
(*          "fetch": get_holidays after a miss; "migrate": load), or None  *)
(*          while the program has not written the file                     *)
(***************************************************************************)
VARIABLES fs, last, written

vars == <<fs, last, written>>

\* "US"
US == <<85, 83>>

\* the (year, provider) pairs of the model
Pairs == {<<2024, ArgentinaDatos>>, <<2024, OpenHolidays(US)>>}

Paths == {get_filename(pr[1], pr[2]) : pr \in Pairs}

\* holiday names: "A", "Bb", and "x" repeated so that the file of a map of
\* this one entry exceeds 10 MiB by one byte
NameA == Utf8(<<65>>)
NameB == Utf8(<<66, 98>>)
NameBig == <<Run(120, MAX_CACHE_BYTES - 27)>>

M2 == Insert(Insert(EmptyHM, <<1, 1>>, official(NameA)), <<25, 12>>, custom(NameB))
MBig == Insert(EmptyHM, <<1, 1>>, official(NameBig))

\* the maps a caller passes to save
SaveMaps == {EmptyHM, M2, MBig}

\* the legacy cache of load_migrates_legacy_boolean_cache
LegacyMap == [k \in {<<1, 1>>, <<2, 1>>} |-> k = <<1, 1>>]
LegacyFile == SerializeLegacy(LegacyMap, <<<<1, 1>>, <<2, 1>>>>)

\* a file that is neither schema: a map of 2^64 - 1 entries, then nothing
Garbage == <<Run(255, 8)>>

\* the file of load_rejects_cache_larger_than_limit, and one a byte shorter
Zeros(n) == <<Run(0, n)>>

\* what may lie at a cache path before the program first runs
InitFiles ==
    {None, Some(Garbage), Some(Zeros(MAX_CACHE_BYTES + 1)), Some(Zeros(MAX_CACHE_BYTES)),
     Some(LegacyFile)}

\* dates: "2024-01-01", "2024-12-25", "2024-13-01", "not-a-date"
Date0101 == <<50, 48, 50, 52, 45, 48, 49, 45, 48, 49>>
Date1225 == <<50, 48, 50, 52, 45, 49, 50, 45, 50, 53>>
Date1301 == <<50, 48, 50, 52, 45, 49, 51, 45, 48, 49>>
NotADate == <<110, 111, 116, 45, 97, 45, 100, 97, 116, 101>>

\* "EN", "de"
LangEN == <<69, 78>>
LangDE == <<100, 101>>

\* what the network may answer
Nets ==
    { [kind |-> "error"],
      [kind |-> "text"],
      [kind |-> "argentina",
       entries |-> <<[fecha |-> Date0101, nombre |-> NameA],
                     [fecha |-> Date1301, nombre |-> NameB],
                     [fecha |-> NotADate, nombre |-> NameB]>>],
      [kind |-> "argentina", entries |-> <<[fecha |-> Date0101, nombre |-> NameBig]>>],
      [kind |-> "openholidays",
       entries |-> <<[start_date |-> Date1225,
                      name |-> <<[language |-> LangDE, text |-> NameB],
                                 [language |-> LangEN, text |-> NameA]>>]>>] }

HasFetch(io) == \E i \in 1..Len(io) : IsFetch(io[i])
HasWrite(io, fname) == \E i \in 1..Len(io) : IsWrite(io[i]) /\ io[i].path = fname

\* the history variable after a call with outcome o
Remember(op, fname, arg, o) ==
    [p \in DOMAIN written |->
        IF ~HasWrite(o.io, p) \/ ~o.res.ok THEN written[p]
        ELSE IF op = "save" THEN Some([hm |-> arg, by |-> "save"])
        ELSE IF op = "load" THEN Some([hm |-> o.res.val.val, by |-> "migrate"])
        ELSE IF op = "get_holidays"
        THEN Some([hm |-> o.res.val,
                   by |-> IF HasFetch(o.io) THEN "fetch" ELSE "migrate"])
        ELSE Some([hm |-> DeserializeHM(o.fs[p].val).hm,
                   by |-> IF HasFetch(o.io) THEN "fetch"
                          ELSE IF arg.args.action.some
                                  /\ arg.args.action.val.cmd \in {"Add", "Delete"}
                          THEN "save"
                          ELSE "migrate"])]

NoPair == <<0, ArgentinaDatos>>

Call(op, pair, fname, arg, o) ==
    /\ fs' = o.fs
    /\ last' = [op |-> op, pair |-> pair, fname |-> fname, arg |-> arg,
                file0 |-> IF fname \in DOMAIN fs THEN fs[fname] ELSE None,
                written0 |-> IF fname \in DOMAIN written THEN written[fname] ELSE None,
                res |-> o.res, io |-> o.io]
    /\ written' = Remember(op, fname, arg, o)

Init ==
    /\ fs \in [Paths -> InitFiles]
    /\ last = [op |-> "none", pair |-> NoPair, fname |-> << >>, arg |-> None,
               file0 |-> None, written0 |-> None, res |-> Ok(Unit), io |-> << >>]
    /\ written = [p \in Paths |-> None]

\* a caller hands a map to save
Save ==
    \E fname \in Paths, hm \in SaveMaps :
        \E o \in save(fs, fname, hm) : Call("save", NoPair, fname, hm, o)

Load ==
    \E fname \in Paths :
        \E o \in load(fs, fname) : Call("load", NoPair, fname, None, o)

GetHolidays ==
    \E pr \in Pairs, net \in Nets :
        \E o \in get_holidays(fs, pr[1], pr[2], net) :
            Call("get_holidays", pr, get_filename(pr[1], pr[2]), net, o)

Next == Save \/ Load \/ GetHolidays

Spec == Init /\ [][Next]_vars

(***************************************************************************)
(* The command line: one run of the program per step                       *)
(***************************************************************************)
\* --country: absent, "us", and the malformed "", "u1" and "usaa"
CliCountries ==
    {None, Some(<<117, 115>>), Some(<< >>), Some(<<117, 49>>), Some(<<117, 115, 97, 97>>)}

CliActions ==
    {None, Some(Add(1, 1)), Some(Delete(1, 1)), Some(List), Some(Display(Some("Month")))}

\* the clock: 2024-12-31
Nows == {[year |-> 2024, month |-> 12, day |-> 31, tick |-> 12]}

CliNets == {net \in Nets : net.kind = "error"
                           \/ (net.kind = "argentina" /\ Len(net.entries) = 3)}

\* one run of the program, its arguments, clock and network drawn from sets
Run_with_args(countries, actions, nows, nets) ==
    \E country \in countries, action \in actions, now \in nows, net \in nets :
        LET args == [country |-> country, action |-> action]
            provider == from_country(country)
        IN  \E o \in invoke(fs, args, now, net) :
                Call("invoke",
                     IF provider.ok THEN <<now.year, provider.val>> ELSE NoPair,
                     IF provider.ok THEN get_filename(now.year, provider.val) ELSE << >>,
                     [args |-> args, now |-> now, net |-> net], o)

Invoke == Run_with_args(CliCountries, CliActions, Nows, CliNets)

NextCli == Invoke

SpecCli == Init /\ [][NextCli]_vars

(***************************************************************************)
(* The calendar on its own: runs of the default provider that display, in  *)
(* every mode, started with no cache file                                  *)
(***************************************************************************)
\* no command, display without a mode, and display in each mode
DisplayActions ==
    {None, Some(Display(None)), Some(Display(Some("Month"))), Some(Display(Some("Q"))),
     Some(Display(Some("Year")))}

\* the clock: 2024-12-31, 2024-12-31 a moment before midnight, 2024-01-15,
\* 2024-06-30 a moment before midnight, 2024-02-29
DisplayNows ==
    {[year |-> 2024, month |-> 12, day |-> 31, tick |-> 12],
     [year |-> 2024, month |-> 12, day |-> 31, tick |-> 1],
     [year |-> 2024, month |-> 1, day |-> 15, tick |-> 12],
     [year |-> 2024, month |-> 6, day |-> 30, tick |-> 2],
     [year |-> 2024, month |-> 2, day |-> 29, tick |-> 12]}

InitFresh ==
    /\ fs = [p \in Paths |-> None]
    /\ last = [op |-> "none", pair |-> NoPair, fname |-> << >>, arg |-> None,
               file0 |-> None, written0 |-> None, res |-> Ok(Unit), io |-> << >>]
    /\ written = [p \in Paths |-> None]

RunDisplay == Run_with_args({None}, DisplayActions, DisplayNows, CliNets)

NextDisplay == RunDisplay

SpecDisplay == InitFresh /\ [][NextDisplay]_vars

(***************************************************************************)
(* The listing on its own: runs of the default provider that list, and     *)
(* that add and delete the 10th of January, started with no cache file     *)
(***************************************************************************)
ListActions == {Some(List), Some(Add(10, 1)), Some(Delete(10, 1))}

RunList == Run_with_args({None}, ListActions, Nows, CliNets)

NextList == RunList

SpecList == InitFresh /\ [][NextList]_vars

(***************************************************************************)
(* The fetch on its own: the provider answers at most MaxEntries entries,  *)
(* their dates drawn from FetchDates                                       *)
(***************************************************************************)
MaxEntries == 2

\* "2024-02-31", "x-05-01", "-05-01", "2024-05", "2024-05-01-07", "20240501",
\* "2024-05-", "2024-5-4294967296"
Date0231 == <<50, 48, 50, 52, 45, 48, 50, 45, 51, 49>>
DateX0501 == <<120, 45, 48, 53, 45, 48, 49>>
DateNoYear == <<45, 48, 53, 45, 48, 49>>
DateNoDay == <<50, 48, 50, 52, 45, 48, 53>>
DateFour == <<50, 48, 50, 52, 45, 48, 53, 45, 48, 49, 45, 48, 55>>
DateNoDash == <<50, 48, 50, 52, 48, 53, 48, 49>>
DateEmptyDay == <<50, 48, 50, 52, 45, 48, 53, 45>>
DateBigDay == <<50, 48, 50, 52, 45, 53, 45, 52, 50, 57, 52, 57, 54, 55, 50, 57, 54>>

\* the fecha or startDate of an entry
FetchDates ==
    {Date0101, Date1225, Date1301, NotADate, Date0231, DateX0501, DateNoYear, DateNoDay,
     DateFour, DateNoDash, DateEmptyDay, DateBigDay}

\* the name of the i-th entry
FetchName(i) == IF i % 2 = 1 THEN NameA ELSE NameB

\* the body of a response with these dates, as each provider sends it
FetchNets(dates) ==
    { [kind |-> "argentina",
       entries |-> [i \in 1..Len(dates) |-> [fecha |-> dates[i], nombre |-> FetchName(i)]]],
      [kind |-> "openholidays",
       entries |-> [i \in 1..Len(dates) |->
                       [start_date |-> dates[i],
                        name |-> <<[language |-> LangEN, text |-> FetchName(i)]>>]]] }

\* provider.fetch(year) of a provider of the model
Fetch ==
    /\ last.op = "none"
    /\ \E pr \in Pairs, n \in 0..MaxEntries :
        \E dates \in [1..n -> FetchDates] :
            \E net \in FetchNets(dates) :
                LET f == fetch(pr[2], pr[1], net)
                IN  Call("fetch", pr, get_filename(pr[1], pr[2]), net,
                         [res |-> f.res, fs |-> fs, io |-> f.io])

NextFetch == Fetch

SpecFetch == InitFresh /\ [][NextFetch]_vars

(***************************************************************************)
(* Keys outside the calendar: runs of the default provider that add and    *)
(* delete the 31st of February and the 1st of month 13, list and display,  *)
(* and calls of load, started with no cache file                           *)
(***************************************************************************)
RangeActions ==
    {Some(Add(31, 2)), Some(Add(1, 13)), Some(Delete(31, 2)), Some(Delete(1, 13)),
     Some(List), Some(Display(Some("Month")))}

RunRange == Run_with_args({None}, RangeActions, Nows, CliNets)

NextRange == RunRange \/ Load

SpecRange == InitFresh /\ [][NextRange]_vars

(***************************************************************************)
(* The calendar at the ends of the time line: runs of the default provider *)
(* that display and list while the clock shows the last day, or the last   *)
(* of November, of the last year of NaiveDate, or the first day of its     *)
(* first year, started with no cache file                                  *)
(***************************************************************************)
EdgeNows ==
    {[year |-> MAX_YEAR, month |-> 12, day |-> 31, tick |-> 12],
     [year |-> MAX_YEAR, month |-> 11, day |-> 30, tick |-> 12],
     [year |-> MIN_YEAR, month |-> 1, day |-> 1, tick |-> 12]}

EdgePaths == {get_filename(now.year, ArgentinaDatos) : now \in EdgeNows}

EdgeActions ==
    {None, Some(Display(Some("Month"))), Some(Display(Some("Q"))),
     Some(Display(Some("Year"))), Some(List)}

InitEdge ==
    /\ fs = [p \in EdgePaths |-> None]
    /\ last = [op |-> "none", pair |-> NoPair, fname |-> << >>, arg |-> None,
               file0 |-> None, written0 |-> None, res |-> Ok(Unit), io |-> << >>]
    /\ written = [p \in EdgePaths |-> None]

RunEdge == Run_with_args({None}, EdgeActions, EdgeNows, CliNets)

NextEdge == RunEdge

SpecEdge == InitEdge /\ [][NextEdge]_vars

(***************************************************************************)
(* add and delete before the first fetch: runs of the default provider     *)
(* that add and delete, and calls of get_holidays for the year of the      *)
(* clock, started with no cache file                                       *)
(***************************************************************************)
EditActions == {Some(Add(24, 12)), Some(Delete(24, 12)), Some(Add(1, 1))}

RunEdit == Run_with_args({None}, EditActions, Nows, CliNets)

GetEdit ==
    \E now \in Nows, net \in CliNets :
        \E o \in get_holidays(fs, now.year, ArgentinaDatos, net) :
            Call("get_holidays", <<now.year, ArgentinaDatos>>,
                 get_filename(now.year, ArgentinaDatos), net, o)

NextEdit == RunEdit \/ GetEdit

SpecEdit == InitFresh /\ [][NextEdit]_vars

(***************************************************************************)
(* Two processes on one cache file                                         *)
(*                                                                         *)
(* Each process runs one add or delete of the default provider: it loads,  *)
(* edits the map, creates the file anew (File::create truncates it) and    *)
(* writes the new map through a BufWriter.  The system calls of the two    *)
(* processes interleave; nothing locks the file.  A process writes at its  *)
(* own file offset, which a truncation by the other process leaves where   *)
(* it is; a write past the end of the file fills the gap with zeros.  The  *)
(* load of a process is taken as one step.                                 *)
(*                                                                         *)
(* In this specification last.arg holds the processes: procs[p] is         *)
(* [pc, cmd, hm, writes, off, calls] (hm the map it saves, writes the      *)
(* write calls still to make, off its file offset, calls the write calls   *)
(* of its save), finished lists the processes in the order in which their  *)
(* saves completed, and overlap tells that a step of one save fell between *)
(* the File::create and the last write of the other.                       *)
(***************************************************************************)
\* the capacity of BufWriter::new
BUF_CAPACITY == 8192

\* the write_all calls of bincode::serialize_into on the writer: one per
\* integer and one per name
RECURSIVE EntryPieces(_, _, _)
EntryPieces(hm, order, i) ==
    IF i > Len(order) THEN << >>
    ELSE <<FromBytes(EncU32(order[i][1])), FromBytes(EncU32(order[i][2])),
           FromBytes(EncU64(ByteLen(hm[order[i]].name))), hm[order[i]].name,
           FromBytes(EncU32(KindIndex(hm[order[i]].kind)))>>
         \o EntryPieces(hm, order, i + 1)

Pieces(hm, order) == <<FromBytes(EncU64(Len(order)))>> \o EntryPieces(hm, order, 1)

\* the write calls a BufWriter makes on the file for these write_all
\* calls and the final flush, buf the bytes it holds: a piece shorter than
\* the room left is kept; else the buffer is written out first if the
\* piece is longer than the room left, and the piece is written on its own
\* if it is as long as the buffer, and kept if not
RECURSIVE BufWrites(_, _, _)
BufWrites(pieces, i, buf) ==
    IF i > Len(pieces) THEN (IF buf = << >> THEN << >> ELSE <<buf>>)
    ELSE IF ByteLen(pieces[i]) < BUF_CAPACITY - ByteLen(buf)
    THEN BufWrites(pieces, i + 1, Concat(buf, pieces[i]))
    ELSE IF ByteLen(pieces[i]) > BUF_CAPACITY - ByteLen(buf)
    THEN (IF buf = << >> THEN << >> ELSE <<buf>>)
         \o (IF ByteLen(pieces[i]) >= BUF_CAPACITY
             THEN <<pieces[i]>> \o BufWrites(pieces, i + 1, << >>)
             ELSE BufWrites(pieces, i + 1, pieces[i]))
    ELSE BufWrites(pieces, i + 1, Concat(buf, pieces[i]))

\* write(2) with O_APPEND: the bytes go to the end of the file
PWrite_append(content, off, bytes) == Concat(content, bytes)

\* write(2) of bytes at the offset off of a file
PWrite(content, off, bytes) ==
    Concat(Concat(IF off <= ByteLen(content) THEN TakeBytes(content, off)
                  ELSE Concat(content, <<Run(0, off - ByteLen(content))>>),
                  bytes),
           IF off + ByteLen(bytes) < ByteLen(content)
           THEN DropBytes(content, off + ByteLen(bytes)) ELSE << >>)

\* the map add or delete saves for the map hm it loaded
Edited(cmd, hm) ==
    IF cmd.cmd = "Delete" THEN Remove(hm, <<cmd.day, cmd.month>>)
    ELSE IF <<cmd.day, cmd.month>> \in DOMAIN hm THEN hm
    ELSE Insert(hm, <<cmd.day, cmd.month>>, custom(CustomName(cmd.day, cmd.month)))

Procs == {1, 2}

\* the pair whose cache file both processes edit
RacePair == <<2024, ArgentinaDatos>>
RacePath == get_filename(RacePair[1], RacePair[2])

\* "x" repeated 9000 times: a name longer than the buffer of the writer
NameLong == <<Run(120, 9000)>>

\* the cache file before the two processes start: none, one holiday, one
\* holiday with the long name
RaceFiles ==
    {None,
     Some(SerializeHM(Insert(EmptyHM, <<1, 1>>, official(NameA)), <<<<1, 1>>>>)),
     Some(SerializeHM(Insert(EmptyHM, <<1, 1>>, official(NameLong)), <<<<1, 1>>>>))}

RaceCommands == {Add(24, 12), Add(25, 12), Delete(1, 1)}

InitRace ==
    \E f \in RaceFiles, c \in [Procs -> RaceCommands] :
        /\ fs = [p \in Paths |-> IF p = RacePath THEN f ELSE None]
        /\ last = [op |-> "race", pair |-> RacePair, fname |-> RacePath,
                   arg |-> [procs |-> [p \in Procs |->
                                          [pc |-> "start", cmd |-> c[p], hm |-> EmptyHM,
                                           writes |-> << >>, off |-> 0, calls |-> 0]],
                            finished |-> << >>, overlap |-> FALSE],
                   file0 |-> f, written0 |-> None, res |-> Ok(Unit), io |-> << >>]
        /\ written = [p \in Paths |-> None]

\* the state after a step of process p
RaceStep(p, proc, file, overlap) ==
    /\ fs' = [fs EXCEPT ![RacePath] = file]
    /\ last' = [last EXCEPT !.arg.procs[p] = proc,
                            !.arg.overlap = @ \/ overlap,
                            !.arg.finished = IF proc.pc = "done" THEN Append(@, p) ELSE @]
    /\ UNCHANGED written

\* the other process is between its File::create and its last write
OtherWrites(p) == \E q \in Procs \ {p} : last.arg.procs[q].pc = "writing"

\* env.load(now.year())? and the edit of add or delete
RaceLoad ==
    \E p \in Procs :
        /\ last.arg.procs[p].pc = "start"
        /\ \E l \in env_load(fs, RacePair[2], RacePair[1]) :
              RaceStep(p,
                       IF l.res.ok
                       THEN [last.arg.procs[p] EXCEPT
                                !.pc = "loaded",
                                !.hm = Edited(last.arg.procs[p].cmd, l.res.val)]
                       ELSE [last.arg.procs[p] EXCEPT !.pc = "failed"],
                       l.fs[RacePath], FALSE)

\* save: File::create(fname)?, the map then serialised in some order
RaceCreate ==
    \E p \in Procs :
        /\ last.arg.procs[p].pc = "loaded"
        /\ \E order \in Orders(DOMAIN last.arg.procs[p].hm) :
              RaceStep(p,
                       [last.arg.procs[p] EXCEPT
                           !.pc = "writing",
                           !.writes = BufWrites(Pieces(last.arg.procs[p].hm, order), 1, << >>),
                           !.calls = Len(BufWrites(Pieces(last.arg.procs[p].hm, order),
                                                   1, << >>))],
                       Some(<< >>), OtherWrites(p))

\* save: one write call of the BufWriter, the last one that of flush
RaceWrite ==
    \E p \in Procs :
        /\ last.arg.procs[p].pc = "writing"
        /\ RaceStep(p,
                    [last.arg.procs[p] EXCEPT
                        !.pc = IF Len(last.arg.procs[p].writes) = 1 THEN "done" ELSE "writing",
                        !.writes = Tail(@),
                        !.off = @ + ByteLen(last.arg.procs[p].writes[1])],
                    Some(PWrite(fs[RacePath].val, last.arg.procs[p].off,
                                last.arg.procs[p].writes[1])),
                    OtherWrites(p))

NextRace == RaceLoad \/ RaceCreate \/ RaceWrite

SpecRace == InitRace /\ [][NextRace]_vars

(***************************************************************************)
(* Provider resolution on its own: every --country value of at most        *)
(* MaxCountryLen characters over Alphabet                                  *)
(***************************************************************************)
MaxCountryLen == 4

\* " ", U+00A0, "1", "A", "a", "r", U+00DF, U+00E9, U+20AC, U+FB01
Alphabet == {32, 160, 49, 65, 97, 114, 223, 233, 8364, 64257}

CountryInputs ==
    {None} \cup {Some(s) : s \in UNION {[1..n -> Alphabet] : n \in 0..MaxCountryLen}}

\* last.arg is the --country value the run was started with
InitProvider ==
    /\ fs = [p \in Paths |-> None]
    /\ last \in {[op |-> "none", pair |-> NoPair, fname |-> << >>, arg |-> country,
                  file0 |-> None, written0 |-> None, res |-> Ok(Unit), io |-> << >>]
                 : country \in CountryInputs}
    /\ written = [p \in Paths |-> None]

FromCountry ==
    /\ last.op = "none"
    /\ last' = [last EXCEPT !.op = "from_country", !.res = from_country(last.arg)]
    /\ UNCHANGED <<fs, written>>

\* the years get_filename is asked for
FilenameYears == {-1, 0, 999, 2024, 2030, 10000}

\* the cache path of the provider resolved, for a year
GetFilename ==
    /\ last.op = "from_country" /\ last.res.ok
    /\ \E year \in FilenameYears :
           last' = [last EXCEPT !.op = "get_filename",
                                !.arg = [year |-> year, provider |-> last.res.val],
                                !.res = Ok(get_filename(year, last.res.val))]
    /\ UNCHANGED <<fs, written>>

NextProvider == FromCountry \/ GetFilename

SpecProvider == InitProvider /\ [][NextProvider]_vars

(***************************************************************************)
(* DisplayMonth on its own: a month is constructed, stepped at most        *)
(* MaxSteps times with next and prev, and its grid is drawn.  last.res is  *)
(* the result of the last call, last.arg.self its receiver and             *)
(* last.arg.path the steps made since the construction.                    *)
(***************************************************************************)
MaxSteps == 2

\* the month arguments: 0..13, 268 (12 as a u8) and u32::MAX
MonthInputs == (0..13) \cup {268, -1}

\* the year arguments: the ends of NaiveDate and the years past them, the
\* years of the tests, leap and common years, i32::MAX
YearInputs ==
    {MIN_YEAR - 1, MIN_YEAR, 1900, 1970, 2000, 2023, 2024, MAX_YEAR, MAX_YEAR + 1,
     2147483647}

\* no holiday, and holidays on a Tuesday and a Saturday of January 1970
\* and on 29 February
MonthMaps ==
    {EmptyHM,
     Insert(Insert(Insert(EmptyHM, <<6, 1>>, custom(NameA)), <<3, 1>>, official(NameB)),
            <<29, 2>>, official(NameA))}

\* what the clock may show to get_matrix: days of the month drawn, a day
\* of another year
Todays(dm) ==
    {Date(dm.year, dm.month, d) : d \in {1, 3, 4, 6}} \cup {Date(1969, 7, 20)}

HasMonth == last.op \in {"new", "next", "prev"} /\ last.res.ok

MonthCall(op, arg, res) ==
    /\ last' = [last EXCEPT !.op = op, !.arg = arg, !.res = res]
    /\ UNCHANGED <<fs, written>>

MonthNew ==
    /\ last.op = "none"
    /\ \E month \in MonthInputs, year \in YearInputs, hm \in MonthMaps :
           MonthCall("new", [month |-> month, year |-> year, hm |-> hm, path |-> << >>],
                     DisplayMonth_new(month, year, hm))

MonthNext ==
    /\ HasMonth
    /\ Len(last.arg.path) < MaxSteps
    /\ MonthCall("next", [self |-> last.res.val, path |-> Append(last.arg.path, "next")],
                 next(last.res.val))

MonthPrev ==
    /\ HasMonth
    /\ Len(last.arg.path) < MaxSteps
    /\ MonthCall("prev", [self |-> last.res.val, path |-> Append(last.arg.path, "prev")],
                 prev(last.res.val))

GetMatrix ==
    /\ HasMonth
    /\ \E today \in Todays(last.res.val) :
           MonthCall("get_matrix",
                     [self |-> last.res.val, today |-> today, path |-> last.arg.path],
                     Ok(get_matrix(last.res.val, today)))

NextMonth == MonthNew \/ MonthNext \/ MonthPrev \/ GetMatrix

SpecMonth == InitFresh /\ [][NextMonth]_vars

(***************************************************************************)
(* The claims about the cache, checked under Spec                          *)
(***************************************************************************)
IsGet == last.op = "get_holidays"
IsLoad == last.op = "load"
Size0 == ByteLen(last.file0.val)
Current0 == DeserializeHM(last.file0.val)
Legacy0 == DeserializeLegacy(last.file0.val)
Unchanged0 == fs[last.fname] = last.file0 /\ ~HasWrite(last.io, last.fname)

\* the provider of the call answers net with a map
NetOk == last.arg.kind = (IF is_default(last.pair[2]) THEN "argentina" ELSE "openholidays")

\* C1 as claimed: whenever a file that decodes under the current schema
\* lies at the path, get_holidays returns the map stored in it, fetches
\* nothing and leaves the file as it is.
C1_AnyDecodableFileIsAHit ==
    (IsGet /\ last.file0.some /\ Current0.ok)
        => /\ last.res = Ok(Current0.hm)
           /\ ~HasFetch(last.io)
           /\ Unchanged0

\* C1, amended: the same for a decodable current-schema file of at most
\* MAX_CACHE_BYTES bytes.
C1_CacheHit ==
    (IsGet /\ last.file0.some /\ Size0 <= MAX_CACHE_BYTES /\ Current0.ok)
        => /\ last.res = Ok(Current0.hm)
           /\ ~HasFetch(last.io)
           /\ Unchanged0

C1_Witness ==
    /\ IsGet /\ last.file0.some /\ Size0 <= MAX_CACHE_BYTES /\ Current0.ok
    /\ Cardinality(DOMAIN Current0.hm) = 2
    /\ NetOk

\* C2 as claimed: with no file at the path, load reports a miss and
\* get_holidays makes exactly one fetch, saves the fetched map at the path
\* and returns it; every later get_holidays for the pair, nothing else
\* having written the file, returns that map and fetches nothing.
C2_MissThenHits ==
    /\ (IsLoad /\ ~last.file0.some) => last.res = Ok(None)
    /\ (IsGet /\ ~last.file0.some)
         => Cardinality({i \in 1..Len(last.io) : IsFetch(last.io[i])}) = 1
    /\ (IsGet /\ ~last.file0.some /\ NetOk)
         => /\ last.res.ok
            /\ fs[last.fname].some
            /\ DeserializeHM(fs[last.fname].val) = [ok |-> TRUE, hm |-> last.res.val]
            /\ written[last.fname] = Some([hm |-> last.res.val, by |-> "fetch"])
    /\ (IsGet /\ last.written0.some /\ last.written0.val.by = "fetch")
         => /\ last.res = Ok(last.written0.val.hm)
            /\ ~HasFetch(last.io)

\* C3: a fetch that fails after a miss is returned as the error it is (Http
\* for the transport, Json for the body), and no file appears at the path.
C3_FetchFailure ==
    (IsGet /\ ~last.file0.some /\ ~NetOk)
        => /\ ~last.res.ok
           /\ last.res.err = (IF last.arg.kind = "error" THEN "Http" ELSE "Json")
           /\ ~fs[last.fname].some
           /\ ~HasWrite(last.io, last.fname)

C3_Witness ==
    IsGet /\ ~last.file0.some /\ last.arg.kind = "text" /\ ~last.res.ok

\* the file found decodes under neither schema, or is over the size guard
Corrupt0 ==
    last.file0.some /\ (Size0 > MAX_CACHE_BYTES \/ (~Current0.ok /\ ~Legacy0.ok))

\* C4: such a file makes load and get_holidays fail with a Cache error;
\* nothing is fetched and the file stays as it is.
C4_CorruptIsAnError ==
    ((IsGet \/ IsLoad) /\ Corrupt0)
        => /\ ~last.res.ok
           /\ last.res.err = "Cache"
           /\ ~HasFetch(last.io)
           /\ Unchanged0

C4_Witness ==
    IsGet /\ last.file0 = Some(Garbage) /\ ~last.res.ok /\ NetOk

\* C5 as claimed: on a corrupt file get_holidays fetches, saves the fetched
\* map over the file and returns it.
C5_CorruptIsRefetched ==
    (IsGet /\ Corrupt0 /\ NetOk)
        => /\ HasFetch(last.io)
           /\ last.res.ok
           /\ DeserializeHM(fs[last.fname].val) = [ok |-> TRUE, hm |-> last.res.val]

\* C5, amended: get_holidays fetches exactly when no file lies at the path,
\* and writes after a fetch only; on a corrupt file its I/O is the
\* metadata call, and the read when the file is within the size guard.
C5_FetchOnlyOnMiss ==
    IsGet
        => /\ HasFetch(last.io) <=> ~last.file0.some
           /\ (HasWrite(last.io, last.fname) /\ ~HasFetch(last.io))
                => (last.file0.some /\ ~Current0.ok /\ Legacy0.ok)
           /\ Corrupt0
                => last.io = (IF Size0 > MAX_CACHE_BYTES
                              THEN <<Metadata(last.fname)>>
                              ELSE <<Metadata(last.fname), Read(last.fname)>>)

C5_Witness ==
    IsGet /\ Corrupt0 /\ Size0 <= MAX_CACHE_BYTES /\ NetOk /\ ~last.res.ok
    /\ Len(last.io) = 2

\* C6 as claimed: load returns the map of the last save to the path,
\* whatever the file held before that save.
C6_LoadReturnsLastSave ==
    (IsLoad /\ last.written0.some)
        => /\ last.res = Ok(Some(last.written0.val.hm))
           /\ Unchanged0

C8_SizeGuard ==
    (IsLoad /\ last.file0.some)
        => IF Size0 > MAX_CACHE_BYTES
           THEN /\ ~last.res.ok /\ last.res.err = "Cache"
                /\ last.io = <<Metadata(last.fname)>>
                /\ Unchanged0
           ELSE /\ Len(last.io) >= 2 /\ last.io[2] = Read(last.fname)
                /\ Size0 = MAX_CACHE_BYTES => last.res.ok

C8_Witness ==
    IsLoad /\ last.file0.some /\ Size0 = MAX_CACHE_BYTES + 1 /\ Current0.ok
    /\ ~last.res.ok

(***************************************************************************)
(* The claims about --country, checked under SpecProvider and SpecCli      *)
(***************************************************************************)
\* the trimmed, uppercased value is not a code of 2 or 3 ASCII letters
Malformed(country) ==
    /\ country.some
    /\ LET upper == to_uppercase(trim(country.val))
       IN  \/ trim(country.val) = << >>
           \/ Len(upper) \notin {2, 3}
           \/ \E i \in 1..Len(upper) : ~is_ascii_alphabetic(upper[i])

\* C9: from_country(None) is ArgentinaDatos; from_country(Some(s)) is a
\* Config error when s is empty after trimming or its trimmed, uppercased
\* form is not 2 or 3 characters long or has a character that is no ASCII
\* letter; otherwise ArgentinaDatos for "AR" and OpenHolidays of the
\* uppercased code for any other.  Every OpenHolidays it returns carries 2
\* or 3 letters "A".."Z" and is not "AR".
C9_ProviderResolution ==
    last.op = "from_country"
        => /\ ~last.arg.some => last.res = Ok(ArgentinaDatos)
           /\ Malformed(last.arg) => (~last.res.ok /\ last.res.err = "Config")
           /\ (last.arg.some /\ ~Malformed(last.arg))
                => LET upper == to_uppercase(trim(last.arg.val))
                   IN  last.res = (IF upper = AR THEN Ok(ArgentinaDatos)
                                   ELSE Ok(OpenHolidays(upper)))
           /\ (last.res.ok /\ last.res.val.tag = "OpenHolidays")
                => LET code == last.res.val.country_code
                   IN  /\ Len(code) \in {2, 3}
                       /\ \A i \in 1..Len(code) : code[i] >= 65 /\ code[i] <= 90
                       /\ code # AR

\* " ar" is ArgentinaDatos
C9_Witness ==
    /\ last.op = "from_country" /\ last.arg.some
    /\ Len(last.arg.val) = 3 /\ last.arg.val[1] = 32
    /\ last.res = Ok(ArgentinaDatos)

\* the characters of s with the letters A..Z made small
AsciiLower(s) == [i \in 1..Len(s) |-> IF s[i] >= 65 /\ s[i] <= 90 THEN s[i] + 32 ELSE s[i]]

\* "/h/.config/hm-" and "openholidays-"
ConfigDirHm == <<47, 104, 47, 46, 99, 111, 110, 102, 105, 103, 47, 104, 109, 45>>
OpenholidaysDash == <<111, 112, 101, 110, 104, 111, 108, 105, 100, 97, 121, 115, 45>>

\* C11: the cache path of (year, provider) is <config-dir>/hm-<year> for
\* the default provider, with no slug in the name, and
\* <config-dir>/hm-openholidays-<country code in small letters>-<year> for
\* an OpenHolidays provider; nothing else of the state enters the path.
C11_CacheFilename ==
    last.op = "get_filename" =>
        /\ last.arg.provider.tag = "ArgentinaDatos"
           => last.res.val = ConfigDirHm \o FormatI32(last.arg.year)
        /\ last.arg.provider.tag = "OpenHolidays"
           => last.res.val = ConfigDirHm \o OpenholidaysDash
                             \o AsciiLower(last.arg.provider.country_code)
                             \o <<45>> \o FormatI32(last.arg.year)

\* the code RA, year 2030: .../hm-openholidays-ra-2030
C11_Witness ==
    /\ last.op = "get_filename"
    /\ last.arg = [year |-> 2030, provider |-> OpenHolidays(<<82, 65>>)]
    /\ last.res.val = ConfigDirHm \o OpenholidaysDash
                      \o <<114, 97, 45, 50, 48, 51, 48>>

\* C10: a run whose --country is malformed ends in a Config error, whatever
\* the command, having made no I/O call at all and with every cache file as
\* it was.
C10_ConfigBeforeIO ==
    [][(last'.op = "invoke" /\ Malformed(last'.arg.args.country))
          => /\ ~last'.res.ok /\ last'.res.err = "Config"
             /\ last'.io = << >>
             /\ fs' = fs]_vars

C10_Witness ==
    /\ last.op = "invoke" /\ Malformed(last.arg.args.country)
    /\ last.arg.args.action = Some(Add(1, 1))
    /\ ~last.res.ok
    /\ \E p \in Paths : fs[p] = Some(LegacyFile)

(***************************************************************************)
(* The claims about DisplayMonth, checked under SpecMonth                  *)
(***************************************************************************)
\* the days of a month by the calendar's rule
IsLeapYear(y) == (y % 4 = 0 /\ y % 100 # 0) \/ y % 400 = 0
DaysInMonth(y, m) ==
    IF m = 2 THEN (IF IsLeapYear(y) THEN 29 ELSE 28)
    ELSE IF m \in {4, 6, 9, 11} THEN 30 ELSE 31

\* the weekday of a date, Monday = 0, by the table of month offsets
MonthOffset == <<0, 3, 2, 5, 0, 3, 5, 1, 4, 6, 2, 4>>
MarchYear(y, m) == IF m < 3 THEN y - 1 ELSE y
WeekdayIndex(y, m, d) ==
    (MarchYear(y, m) + MarchYear(y, m) \div 4 - MarchYear(y, m) \div 100
     + MarchYear(y, m) \div 400 + MonthOffset[m] + d + 6) % 7

\* C12: a next followed by a prev, and a prev followed by a next, both
\* succeeding, give back the month and the year of the month stepped from,
\* also across December/January.
C12_StepRoundTrip ==
    [][ /\ (last.op = "next" /\ last.res.ok /\ last'.op = "prev" /\ last'.res.ok)
           => (/\ last'.res.val.month = last.arg.self.month
               /\ last'.res.val.year = last.arg.self.year)
        /\ (last.op = "prev" /\ last.res.ok /\ last'.op = "next" /\ last'.res.ok)
           => (/\ last'.res.val.month = last.arg.self.month
               /\ last'.res.val.year = last.arg.self.year) ]_vars

\* December, then January of the next year, and back
C12_Witness ==
    /\ last.op = "prev" /\ last.res.ok
    /\ last.arg.path = <<"next", "prev">>
    /\ last.arg.self.month = 1 /\ last.arg.self.year = 2025
    /\ last.res.val.month = 12 /\ last.res.val.year = 2024

\* C13: a step that succeeds is, for next, month (m mod 12) + 1 with year
\* y + 1 exactly when m = 12, and for prev, month 12 with year y - 1
\* exactly when m = 1, else month m - 1 of year y; a step fails only where
\* the calendar ends.
C13_SingleStep ==
    /\ (last.op = "next" /\ last.res.ok)
       => (/\ last.res.val.month = (last.arg.self.month % 12) + 1
           /\ last.res.val.year = IF last.arg.self.month = 12 THEN last.arg.self.year + 1
                                  ELSE last.arg.self.year)
    /\ (last.op = "prev" /\ last.res.ok)
       => (/\ last.res.val.month = IF last.arg.self.month = 1 THEN 12
                                   ELSE last.arg.self.month - 1
           /\ last.res.val.year = IF last.arg.self.month = 1 THEN last.arg.self.year - 1
                                  ELSE last.arg.self.year)
    /\ (last.op = "next" /\ ~last.res.ok)
       => (last.arg.self.month = 11 /\ last.arg.self.year = MAX_YEAR)
    /\ (last.op = "prev" /\ ~last.res.ok)
       => (last.arg.self.month = 1 /\ last.arg.self.year = MIN_YEAR)

\* December 2024 steps to January 2025
C13_Witness ==
    /\ last.op = "next" /\ last.res.ok
    /\ last.arg.self.month = 12 /\ last.arg.self.year = 2024
    /\ last.res.val.month = 1 /\ last.res.val.year = 2025

\* the cells of a grid that show a day
DayCells(mx) ==
    {[r |-> r, c |-> c] : r \in 1..Len(mx), c \in 1..7}
    \cap {rc \in [r : 1..Len(mx), c : 1..7] :
             rc.c <= Len(mx[rc.r]) /\ mx[rc.r][rc.c].text # << >>}

IsTodayCell(cell) ==
    Date(last.arg.self.year, last.arg.self.month, ParseU32(cell.text).val)
    = last.arg.today
IsWeekendCell(cell) ==
    WeekdayIndex(last.arg.self.year, last.arg.self.month, ParseU32(cell.text).val)
    \in {5, 6}
IsHolidayCell(cell) ==
    <<ParseU32(cell.text).val, last.arg.self.month>> \in DOMAIN last.arg.self.hm

\* C18: every day cell of a grid has one of the four styles: that of today
\* if its date is today, else that of a weekend if it is a Saturday or a
\* Sunday, else that of a holiday if (day, month) is a key of the map, else
\* none.
C18_CellStyle ==
    last.op = "get_matrix" =>
        \A rc \in DayCells(last.res.val) :
            LET cell == last.res.val[rc.r][rc.c]
            IN  /\ cell.style \in {"black on_white", "green", "red", "plain"}
                /\ cell.style = "black on_white" <=> IsTodayCell(cell)
                /\ cell.style = "green" <=> (~IsTodayCell(cell) /\ IsWeekendCell(cell))
                /\ cell.style = "red"
                   <=> (~IsTodayCell(cell) /\ ~IsWeekendCell(cell) /\ IsHolidayCell(cell))

\* January 1970 drawn on the 6th: the holiday on Saturday the 3rd has the
\* style of a weekend, the holiday on the 6th that of today
C18_Witness ==
    /\ last.op = "get_matrix"
    /\ last.arg.self.month = 1 /\ last.arg.self.year = 1970
    /\ <<3, 1>> \in DOMAIN last.arg.self.hm
    /\ last.arg.today = Date(1970, 1, 6)
    /\ last.res.val[1][6] = Cell(<<51>>, "green")
    /\ last.res.val[2][2] = Cell(<<54>>, "black on_white")

\* the cell of a grid at position i, counted row by row
FlatCell(mx, i) == mx[((i - 1) \div 7) + 1][((i - 1) % 7) + 1]

\* C19: the grid has rows of 7 cells, the last of 1 to 7; counted row by
\* row its cells are as many empty ones as the weekday index of the 1st
\* (Monday = 0), then the days 1..N in order, N the days of the month.
C19_GridShape ==
    last.op = "get_matrix" =>
        LET mx == last.res.val
            lead == WeekdayIndex(last.arg.self.year, last.arg.self.month, 1)
            days == DaysInMonth(last.arg.self.year, last.arg.self.month)
        IN  /\ Len(mx) >= 1
            /\ \A r \in 1..(Len(mx) - 1) : Len(mx[r]) = 7
            /\ Len(mx[Len(mx)]) \in 1..7
            /\ 7 * (Len(mx) - 1) + Len(mx[Len(mx)]) = lead + days
            /\ \A i \in 1..lead : FlatCell(mx, i).text = << >>
            /\ \A d \in 1..days : /\ FlatCell(mx, lead + d).text # << >>
                                  /\ ParseU32(FlatCell(mx, lead + d).text) = Ok(d)

\* February 2024: three empty cells, then 29 days in five rows
C19_Witness ==
    /\ last.op = "get_matrix"
    /\ last.arg.self.month = 2 /\ last.arg.self.year = 2024
    /\ Len(last.res.val) = 5
    /\ Len(last.res.val[5]) = 4
    /\ last.res.val[1][3].text = << >>
    /\ last.res.val[1][4].text = <<49>>
    /\ last.res.val[5][4].text = <<50, 57>>

\* C20 as stated: InvalidDate for every month outside 1..12, and for every
\* month in 1..12 of a year of NaiveDate the month with its first day and
\* its last day.
C20_EveryMonthOfARepresentableYear ==
    last.op = "new" =>
        /\ (last.arg.month < 1 \/ last.arg.month > 12)
           => (~last.res.ok /\ last.res.err = "InvalidDate")
        /\ (/\ last.arg.month >= 1 /\ last.arg.month <= 12
            /\ last.arg.year >= MIN_YEAR /\ last.arg.year <= MAX_YEAR)
           => (/\ last.res.ok
               /\ last.res.val.first_day = Date(last.arg.year, last.arg.month, 1)
               /\ last.res.val.last_day
                  = Date(last.arg.year, last.arg.month,
                         DaysInMonth(last.arg.year, last.arg.month)))

\* C20: DisplayMonth::new returns InvalidDate for every month outside
\* 1..12 and never panics; for every month in 1..12 of a year of NaiveDate,
\* but December of the last year, it returns the month with first_day the
\* 1st and last_day the last day of the month, the day before the 1st of
\* the following month; December of the last year is an InvalidDate.
C20_New ==
    last.op = "new" =>
        /\ last.res.ok \/ last.res.err = "InvalidDate"
        /\ (last.arg.month < 1 \/ last.arg.month > 12) => ~last.res.ok
        /\ (last.arg.year < MIN_YEAR \/ last.arg.year > MAX_YEAR) => ~last.res.ok
        /\ (last.arg.month = 12 /\ last.arg.year = MAX_YEAR) => ~last.res.ok
        /\ (/\ last.arg.month >= 1 /\ last.arg.month <= 12
            /\ last.arg.year >= MIN_YEAR /\ last.arg.year <= MAX_YEAR
            /\ ~(last.arg.month = 12 /\ last.arg.year = MAX_YEAR))
           => (/\ last.res.ok
               /\ last.res.val.month = last.arg.month
               /\ last.res.val.year = last.arg.year
               /\ last.res.val.first_day = Date(last.arg.year, last.arg.month, 1)
               /\ last.res.val.last_day
                  = Date(last.arg.year, last.arg.month,
                         DaysInMonth(last.arg.year, last.arg.month))
               /\ DaysFromCivil(last.res.val.last_day) + 1
                  = DaysFromCivil(IF last.arg.month = 12
                                  THEN Date(last.arg.year + 1, 1, 1)
                                  ELSE Date(last.arg.year, last.arg.month + 1, 1)))

\* December 2024 ends on the 31st, the day before 1 January 2025
C20_Witness ==
    /\ last.op = "new" /\ last.res.ok
    /\ last.arg.month = 12 /\ last.arg.year = 2024
    /\ last.res.val.last_day = Date(2024, 12, 31)

(***************************************************************************)
(* The claims about the commands, checked under SpecDisplay and SpecCli    *)
(***************************************************************************)
\* the mode of a run: Q when no command or no mode is given
ModeOf(action) ==
    IF ~action.some THEN "Q"
    ELSE IF ~action.val.mode.some THEN "Q"
    ELSE action.val.mode.val

\* the months <<month, year>> a mode shows for the clock's month m of year y
ExpectedMonths(mode, m, y) ==
    IF mode = "Month" THEN <<<<m, y>>>>
    ELSE IF mode = "Year" THEN [i \in 1..12 |-> <<i, y>>]
    ELSE <<IF m = 1 THEN <<12, y - 1>> ELSE <<m - 1, y>>,
           <<m, y>>,
           IF m = 12 THEN <<1, y + 1>> ELSE <<m + 1, y>>>>

\* what the run printed last
Printed == last.io[Len(last.io)].text

\* the name and the grid of the k-th month of a printed calendar
HeaderAt(table, k) == table[2 * ((k - 1) \div 3) + 1][((k - 1) % 3) + 1]
GridAt(table, k) == table[2 * ((k - 1) \div 3) + 2][((k - 1) % 3) + 1]

\* C17: a display that succeeds prints, in rows of three, the months of
\* its mode in order: the clock's month (m, y) in Month mode; the month
\* before, (m, y) and the month after in Q mode, which is also the mode of
\* a run without a command or without a mode, December following on to
\* January of y + 1 and January back to December of y - 1; the months
\* (1, y) .. (12, y) in Year mode.  Each month is printed as its name with
\* its year over its grid.
C17_DisplayModes ==
    (last.op = "invoke" /\ last.res.ok) =>
        LET months == ExpectedMonths(ModeOf(last.arg.args.action),
                                     last.arg.now.month, last.arg.now.year)
        IN  /\ Len(Printed) = 2 * ((Len(months) + 2) \div 3)
            /\ \A r \in 1..Len(Printed) :
                   Len(Printed[r]) = IF r < Len(Printed) - 1 THEN 3
                                     ELSE Len(months) - 3 * ((Len(Printed) \div 2) - 1)
            /\ \A k \in 1..Len(months) :
                   /\ HeaderAt(Printed, k)
                      = MonthNames[months[k][1]] \o <<32>> \o FormatI32(months[k][2])
                   /\ 7 * (Len(GridAt(Printed, k)) - 2)
                        + Len(GridAt(Printed, k)[Len(GridAt(Printed, k))])
                      = WeekdayIndex(months[k][2], months[k][1], 1)
                        + DaysInMonth(months[k][2], months[k][1])

\* a run without a command on 2024-12-31 prints November 2024, December
\* 2024 and January 2025
C17_Witness ==
    /\ last.op = "invoke" /\ last.res.ok
    /\ ~last.arg.args.action.some
    /\ last.arg.now.month = 12 /\ last.arg.now.year = 2024
    /\ Len(Printed) = 2 /\ Len(Printed[1]) = 3
    /\ Printed[1][1] = MonthNames[11] \o <<32, 50, 48, 50, 52>>
    /\ Printed[1][2] = MonthNames[12] \o <<32, 50, 48, 50, 52>>
    /\ Printed[1][3] = MonthNames[1] \o <<32, 50, 48, 50, 53>>

\* a run of the command cmd with a well-formed --country
IsCmd(cmd) ==
    /\ last.op = "invoke" /\ last.pair # NoPair
    /\ last.arg.args.action.some /\ last.arg.args.action.val.cmd = cmd

\* the key (day, month) of the command
CmdKey == <<last.arg.args.action.val.day, last.arg.args.action.val.month>>

\* the map stored at the cache path before the run: none for no file, the
\* migrated map for a legacy file
StoredBefore ==
    IF ~last.file0.some THEN EmptyHM
    ELSE IF Current0.ok THEN Current0.hm
    ELSE [k \in {x \in DOMAIN Legacy0.hm : Legacy0.hm[x]} |->
             [name |-> LegacyName(k[1], k[2]), kind |-> Custom]]

\* the file at the cache path after the run, decoded
StoredAfter == DeserializeHM(fs[last.fname].val)

\* the file cannot be loaded: it is too large, or of neither schema
Unloadable0 ==
    /\ last.file0.some
    /\ Size0 > MAX_CACHE_BYTES \/ (~Current0.ok /\ ~Legacy0.ok)

\* "Custom holiday"
CustomHoliday == <<67, 117, 115, 116, 111, 109, 32, 104, 111, 108, 105, 100, 97, 121>>

\* the bytes sub occur in the byte sequence s
Contains(s, sub) ==
    \E i \in 0..(Len(s) - Len(sub)) : SubSeq(s, i + 1, i + Len(sub)) = sub

\* C14: add(day, month) saves the stored map of the current year with the
\* key (day, month) added as a Custom entry named "Custom holiday ..." if
\* it was absent, and as it was if the key was present; every other key
\* keeps its entry; the run prints "OK".  It fails, leaving the file alone,
\* only when the file cannot be loaded.
C14_Add ==
    /\ (IsCmd("Add") /\ last.res.ok)
       => /\ StoredAfter.ok
          /\ DOMAIN StoredAfter.hm = DOMAIN StoredBefore \cup {CmdKey}
          /\ \A k \in DOMAIN StoredBefore : StoredAfter.hm[k] = StoredBefore[k]
          /\ CmdKey \notin DOMAIN StoredBefore
             => /\ StoredAfter.hm[CmdKey].kind = Custom
                /\ Contains(Unpack(StoredAfter.hm[CmdKey].name), CustomHoliday)
          /\ HasWrite(last.io, last.fname)
          /\ last.io[Len(last.io)] = Stdout(OK)
    /\ (IsCmd("Add") /\ ~last.res.ok)
       => (Unloadable0 /\ fs[last.fname] = last.file0 /\ ~HasWrite(last.io, last.fname))

\* the 1st of January is added to a map that holds another key only
C14_Witness ==
    /\ IsCmd("Add") /\ last.res.ok
    /\ DOMAIN StoredBefore = {<<1, 13>>}
    /\ DOMAIN StoredAfter.hm = {<<1, 1>>, <<1, 13>>}
    /\ StoredAfter.hm[<<1, 1>>].kind = Custom
    /\ StoredAfter.hm[<<1, 13>>] = official(NameB)

\* C15: delete(day, month) saves the stored map of the current year
\* without the key (day, month), whatever the kind of its entry, every
\* other key keeping its entry; with the key absent the map saved is the
\* map stored; in both cases the run prints "OK".  It fails, leaving the
\* file alone, only when the file cannot be loaded.
C15_Delete ==
    /\ (IsCmd("Delete") /\ last.res.ok)
       => /\ StoredAfter.ok
          /\ DOMAIN StoredAfter.hm = DOMAIN StoredBefore \ {CmdKey}
          /\ \A k \in DOMAIN StoredAfter.hm : StoredAfter.hm[k] = StoredBefore[k]
          /\ CmdKey \notin DOMAIN StoredBefore => StoredAfter.hm = StoredBefore
          /\ HasWrite(last.io, last.fname)
          /\ last.io[Len(last.io)] = Stdout(OK)
    /\ (IsCmd("Delete") /\ ~last.res.ok)
       => (Unloadable0 /\ fs[last.fname] = last.file0 /\ ~HasWrite(last.io, last.fname))

\* the official 1st of January is deleted, the other key stays
C15_Witness ==
    /\ IsCmd("Delete") /\ last.res.ok
    /\ DOMAIN StoredBefore = {<<1, 1>>, <<1, 13>>}
    /\ StoredBefore[<<1, 1>>].kind = Official
    /\ DOMAIN StoredAfter.hm = {<<1, 13>>}
    /\ StoredAfter.hm[<<1, 13>>] = official(NameB)

\* the fields of a date text, and the key (day, month) it names
DateParts(line) == SplitN(line.date, 3, 45)
KeyOfLine(line) == <<ParseU32(DateParts(line)[3]).val, ParseU32(DateParts(line)[2]).val>>

\* line i precedes line j in the order of (month, day)
Precedes(a, b) == a[2] < b[2] \/ (a[2] = b[2] /\ a[1] < b[1])

Segments(date) == SplitN(date, Len(date) + 1, 45)

\* three segments, each of which parses as an integer
WellFormedDate(date) ==
    /\ Len(Segments(date)) = 3
    /\ \A i \in 1..3 : ParseU32(Segments(date)[i]).ok

\* the (day, month) a well-formed date names
KeyOfDate(date) == <<ParseU32(Segments(date)[3]).val, ParseU32(Segments(date)[2]).val>>

\* the dates of the response of the last fetch
FetchedDates ==
    [i \in 1..Len(last.arg.entries) |->
        IF last.arg.kind = "argentina" THEN last.arg.entries[i].fecha
        ELSE last.arg.entries[i].start_date]

\* C21: a fetch whose body parses succeeds, and its map holds exactly the
\* keys of the entries whose date splits on "-" into exactly three
\* segments that each parse as an integer: every entry with another date
\* is dropped, every entry with such a date is kept as an Official entry.
C21_MalformedDateIsDropped ==
    (last.op = "fetch" /\ NetOk)
    => /\ last.res.ok
       /\ DOMAIN last.res.val
          = {KeyOfDate(FetchedDates[i]) :
                i \in {j \in 1..Len(FetchedDates) : WellFormedDate(FetchedDates[j])}}
       /\ \A k \in DOMAIN last.res.val : last.res.val[k].kind = Official

\* the key (day, month) names no day of the year
OutOfRange(year, k) == k[2] \notin 1..12 \/ k[1] \notin 1..DaysInMonth(year, k[2])

\* the response of the last run holds the date "2024-13-01"
Answers1301 ==
    /\ last.arg.net.kind = "argentina"
    /\ \E i \in 1..Len(last.arg.net.entries) : last.arg.net.entries[i].fecha = Date1301

\* C22: no operation fails with InvalidDate over a map with keys outside
\* the calendar.  A run that fetches a response with the date
\* "2024-13-01" stores the key (1, 13) as an Official entry; add(31, 2)
\* and add(1, 13) succeed and store their key; every run that succeeds
\* over a stored map keeps each of its keys outside the calendar but the
\* one it deletes, with its entry; load returns the map of the file with
\* every such key.
C22_NoRangeValidation ==
    /\ last.res.ok \/ last.res.err # "InvalidDate"
    /\ (last.op = "invoke" /\ last.res.ok /\ HasFetch(last.io) /\ Answers1301)
       => /\ StoredAfter.ok
          /\ <<1, 13>> \in DOMAIN StoredAfter.hm
          /\ StoredAfter.hm[<<1, 13>>].kind = Official
    /\ IsCmd("Add")
       => /\ OutOfRange(last.arg.now.year, CmdKey)
          /\ last.res.ok
          /\ StoredAfter.ok
          /\ CmdKey \in DOMAIN StoredAfter.hm
          /\ CmdKey \notin DOMAIN StoredBefore => StoredAfter.hm[CmdKey].kind = Custom
    /\ (last.op = "invoke" /\ last.res.ok /\ last.file0.some)
       => \A k \in DOMAIN StoredBefore :
             (OutOfRange(last.arg.now.year, k) /\ ~(IsCmd("Delete") /\ k = CmdKey))
             => (StoredAfter.ok /\ k \in DOMAIN StoredAfter.hm
                 /\ StoredAfter.hm[k] = StoredBefore[k])
    /\ (last.op = "load" /\ last.file0.some)
       => /\ last.res.ok /\ last.res.val.some
          /\ last.written0.some /\ last.res.val.val = last.written0.val.hm
          /\ fs[last.fname] = last.file0

\* load returns a map holding the fetched (1, 13) and the added (31, 2)
C22_Witness ==
    /\ last.op = "load" /\ last.res.ok /\ last.res.val.some
    /\ {<<1, 13>>, <<31, 2>>} \subseteq DOMAIN last.res.val.val
    /\ last.res.val.val[<<1, 13>>] = official(NameB)
    /\ last.res.val.val[<<31, 2>>].kind = Custom

\* C23: a run that fails with InvalidDate has made no I/O call: it read
\* no cache file, wrote none and fetched nothing.
C23_InvalidDateBeforeIO ==
    (last.op = "invoke" /\ ~last.res.ok /\ last.res.err = "InvalidDate")
    => (last.io = << >> /\ fs[last.fname] = last.file0)

\* the months of the last display, by the clock that env.now() answered
ShownMonths ==
    ExpectedMonths(ModeOf(last.arg.args.action), last.arg.now.month, last.arg.now.year)

\* the cells <<k, r, c>> of the printed calendar styled as today: row r,
\* column c of the grid of the k-th month
TodayCells ==
    {x \in (1..12) \X (2..7) \X (1..7) :
        /\ x[1] <= Len(ShownMonths)
        /\ x[2] <= Len(GridAt(Printed, x[1]))
        /\ x[3] <= Len(GridAt(Printed, x[1])[x[2]])
        /\ GridAt(Printed, x[1])[x[2]][x[3]].style = "black on_white"}

\* C24: in the calendar a display prints, a cell is styled as today only
\* if it is the day env.now() answered, in the month and year env.now()
\* answered, so that at most one cell of the output is styled as today.
C24_SingleToday ==
    (last.op = "invoke" /\ last.res.ok) =>
        /\ Cardinality(TodayCells) <= 1
        /\ \A x \in TodayCells :
               /\ ShownMonths[x[1]] = <<last.arg.now.month, last.arg.now.year>>
               /\ GridAt(Printed, x[1])[x[2]][x[3]].text = FormatU32(last.arg.now.day)

\* a run of add or of delete
IsEdit == IsCmd("Add") \/ IsCmd("Delete")

\* C25: add and delete never fetch.  Run with no cache file for the
\* current year and provider, they succeed and leave a file that holds
\* their own result only: the one Custom entry of add, the empty map of
\* delete.  A get_holidays that finds a file last written by add or delete
\* returns the map of that file, fetches nothing and leaves the file as it
\* is; and no call at all fetches for a pair whose file exists and loads.
C25_EditNeverFetches ==
    /\ IsEdit => ~HasFetch(last.io)
    /\ (IsEdit /\ ~last.file0.some)
       => /\ last.res.ok
          /\ StoredAfter.ok
          /\ StoredAfter.hm
             = IF IsCmd("Add")
               THEN Insert(EmptyHM, CmdKey, custom(CustomName(CmdKey[1], CmdKey[2])))
               ELSE EmptyHM
    /\ (IsGet /\ last.file0.some /\ last.written0.some /\ last.written0.val.by = "save")
       => /\ last.res = Ok(last.written0.val.hm)
          /\ last.res = Ok(Current0.hm)
          /\ ~HasFetch(last.io)
          /\ Unchanged0
    /\ (last.file0.some /\ last.res.ok) => ~HasFetch(last.io)

\* after a delete that found no file, get_holidays returns the empty map
\* although the provider would answer with holidays
C25_Witness ==
    /\ IsGet /\ last.file0.some /\ last.written0.some
    /\ last.written0.val = [hm |-> EmptyHM, by |-> "save"]
    /\ last.res = Ok(EmptyHM)
    /\ last.arg.kind = "argentina" /\ is_default(last.pair[2])

\* both processes have ended, and one save or more has completed
RaceOver ==
    /\ last.op = "race"
    /\ \A p \in Procs : last.arg.procs[p].pc \in {"done", "failed"}
    /\ last.arg.finished # << >>

\* the map of the save that completed last
LastSaved == last.arg.procs[last.arg.finished[Len(last.arg.finished)]].hm

\* the final file, decoded
RaceFile == DeserializeHM(fs[RacePath].val)

\* C26 as claimed: however the steps of the two processes interleave, the
\* file holds in the end exactly the map of the save that completed last.
C26_LastWriterWins ==
    RaceOver => (RaceFile.ok /\ RaceFile.hm = LastSaved)

\* C26, amended: the file holds in the end exactly the map of the save that
\* completed last whenever no step of one save fell between the
\* File::create and the last write of the other (the file is then byte for
\* byte a serialisation of that map), and also whenever each save made a
\* single write call; nothing of the other process's map is merged in.
C26_LastWriterWinsUnlessTorn ==
    /\ (RaceOver /\ ~last.arg.overlap)
       => fs[RacePath].val \in {SerializeHM(LastSaved, o) : o \in Orders(DOMAIN LastSaved)}
    /\ (RaceOver /\ (~last.arg.overlap \/ \A p \in Procs : last.arg.procs[p].calls <= 1))
       => (RaceFile.ok /\ RaceFile.hm = LastSaved)

\* the lost update: two adds of different keys whose saves do not overlap,
\* both completed, and the file holds the key of one of them only
C26_Witness ==
    /\ RaceOver /\ ~last.arg.overlap
    /\ last.file0 = None
    /\ \A p \in Procs : last.arg.procs[p].pc = "done"
    /\ {<<last.arg.procs[p].cmd.day, last.arg.procs[p].cmd.month>> : p \in Procs}
       = {<<24, 12>>, <<25, 12>>}
    /\ \A p \in Procs : last.arg.procs[p].cmd.cmd = "Add"
    /\ RaceFile.ok
    /\ Cardinality(DOMAIN RaceFile.hm) = 1

====
